---------------------------- MODULE Spec2Model ----------------------------
(***************************************************************************)
(* A model of fix_errors.py (Maven test error analyzer and fix suggester). *)
(* Texts are strings handled character by character, the way the Python    *)
(* code and its regular expressions handle them.                           *)
(***************************************************************************)
EXTENDS Integers, Sequences, FiniteSets, TLC

(***************************************************************************)
(* Python string primitives.                                               *)
(***************************************************************************)
Min2(a, b) == IF a <= b THEN a ELSE b
Max2(a, b) == IF a >= b THEN a ELSE b
SetMin(S) == CHOOSE x \in S : \A y \in S : x <= y
SetMax(S) == CHOOSE x \in S : \A y \in S : x >= y

\* s[i-1] of Python, "" outside the string
Ch(s, i) == IF i >= 1 /\ i <= Len(s) THEN SubSeq(s, i, i) ELSE ""
\* the characters i..j of s (1-based, inclusive), clipped to the string
Mid(s, i, j) == IF Max2(i, 1) > Min2(j, Len(s)) THEN "" ELSE SubSeq(s, Max2(i, 1), Min2(j, Len(s)))
From(s, i) == Mid(s, i, Len(s))
LitAt(s, i, lit) == i >= 1 /\ i + Len(lit) - 1 <= Len(s) /\ Mid(s, i, i + Len(lit) - 1) = lit
\* lit in s
Contains(s, lit) == \E i \in 1..(Len(s) - Len(lit) + 1) : LitAt(s, i, lit)
StartsWith(s, lit) == LitAt(s, 1, lit)
EndsWith(s, lit) == Len(lit) <= Len(s) /\ LitAt(s, Len(s) - Len(lit) + 1, lit)
\* s.find(lit, from): the first position >= from where lit stands, 0 when none
FindFrom(s, lit, from) ==
    LET P == {i \in Max2(from, 1)..(Len(s) - Len(lit) + 1) : LitAt(s, i, lit)}
    IN IF P = {} THEN 0 ELSE SetMin(P)
\* s.rfind(lit)
FindLast(s, lit) ==
    LET P == {i \in 1..(Len(s) - Len(lit) + 1) : LitAt(s, i, lit)}
    IN IF P = {} THEN 0 ELSE SetMax(P)

UpperLetters == "ABCDEFGHIJKLMNOPQRSTUVWXYZ"
LowerLetters == "abcdefghijklmnopqrstuvwxyz"
DigitChars == "0123456789"
CharSet(s) == {SubSeq(s, i, i) : i \in 1..Len(s)}
UpperSet == CharSet(UpperLetters)
LowerSet == CharSet(LowerLetters)
DigitSet == CharSet(DigitChars)
\* \s of the re module, on the characters the texts use
SpaceSet == {" ", "\t", "\n", "\r"}
\* \w and [a-zA-Z0-9_]
WordSet == UpperSet \cup LowerSet \cup DigitSet \cup {"_"}
LowerOf(c) == IF c \in UpperSet
              THEN Ch(LowerLetters, CHOOSE i \in 1..26 : Ch(UpperLetters, i) = c)
              ELSE c
RECURSIVE Lower(_)
Lower(s) == IF s = "" THEN "" ELSE LowerOf(Ch(s, 1)) \o Lower(From(s, 2))

\* the end (exclusive) of the longest run of characters of C that starts at i
RECURSIVE RunEnd(_, _, _)
RunEnd(s, i, C) == IF i <= Len(s) /\ Ch(s, i) \in C THEN RunEnd(s, i + 1, C) ELSE i
\* the start of the longest run of characters of C that ends just before i
RECURSIVE RunStart(_, _, _)
RunStart(s, i, C) == IF i > 1 /\ Ch(s, i - 1) \in C THEN RunStart(s, i - 1, C) ELSE i

\* s.strip()
Strip(s) ==
    LET a == RunEnd(s, 1, SpaceSet)
        b == RunStart(s, Len(s) + 1, SpaceSet)
    IN IF a > Len(s) THEN "" ELSE Mid(s, a, b - 1)

\* s.count(c) for a one-character c
RECURSIVE CountChar(_, _)
CountChar(s, c) == IF s = "" THEN 0
                   ELSE (IF Ch(s, 1) = c THEN 1 ELSE 0) + CountChar(From(s, 2), c)

\* s.split(sep) for a non-empty sep: always at least one piece
RECURSIVE Split(_, _)
Split(s, sep) ==
    LET p == FindFrom(s, sep, 1)
    IN IF p = 0 THEN <<s>>
       ELSE <<Mid(s, 1, p - 1)>> \o Split(From(s, p + Len(sep)), sep)

\* sep.join(parts)
RECURSIVE Join(_, _)
Join(parts, sep) ==
    IF Len(parts) = 0 THEN ""
    ELSE IF Len(parts) = 1 THEN parts[1]
    ELSE parts[1] \o sep \o Join(Tail(parts), sep)

\* s.replace(c, d) for a one-character c
RECURSIVE ReplaceChar(_, _, _)
ReplaceChar(s, c, d) ==
    IF s = "" THEN ""
    ELSE (IF Ch(s, 1) = c THEN d ELSE Ch(s, 1)) \o ReplaceChar(From(s, 2), c, d)

\* lines[a:b] of Python for 0 <= a, b (0-based, b exclusive)
Slice(seq, a, b) == IF a >= Min2(b, Len(seq)) THEN <<>> ELSE SubSeq(seq, a + 1, Min2(b, Len(seq)))

RECURSIVE Rep(_, _)
Rep(s, n) == IF n <= 0 THEN "" ELSE s \o Rep(s, n - 1)

(***************************************************************************)
(* State.                                                                  *)
(***************************************************************************)
VARIABLES
    fs,          \* the filesystem: path |-> content of each existing file
    pc,          \* the position of the running operation
    test_class,  \* dotted class name of the failing test
    test_method, \* name of the failing test method
    source_info, \* the result of _get_test_source_info
    test_file_path, \* the path extract_test_dependencies is called with
    dependencies, \* the result of extract_test_dependencies
    source_code, \* the text analyze_code_for_logic_bugs is called with
    failure_details, \* the failure record it is called with
    analysis,    \* its outcome: the annotations, or the exception raised
    stack_trace, \* the stack trace of the failing test
    all_dependencies, \* the names find_related_source_files collects
    search_patterns,  \* the file-name patterns it searches for
    related_files,    \* the list it returns
    failures,         \* the failure records generate_prompt goes through
    failure_index,    \* the record it is at
    file_index,       \* the related file it is at
    all_potential_bugs, \* the annotations collected for the record
    prompt,           \* the parts of the prompt assembled so far
    argv,             \* the command-line argument, "" when there is none
    reports,          \* the report files, in the order glob gives them
    report_index,     \* the report parse_xml_reports is at
    test_suites,      \* the suites the analyzer has recorded
    total_tests,      \* the analyzer's running totals
    total_failures,
    total_errors,
    total_skipped,
    summary,          \* the content of output/error-summary.json
    events,           \* the stages started and the external calls made
    ai_response,      \* the reply of the inference endpoint
    structured_fixes  \* the result of parse_ai_response

locVars == <<test_class, test_method, source_info>>
depVars == <<test_file_path, dependencies>>
bugVars == <<source_code, failure_details, analysis>>
totalVars == <<total_tests, total_failures, total_errors, total_skipped>>
replyVars == <<ai_response, structured_fixes>>
mainVars == <<argv, reports, report_index, test_suites, totalVars, summary, events,
              replyVars>>
promptVars == <<failures, failure_index, file_index, all_potential_bugs, prompt>>
relVars == <<stack_trace, all_dependencies, search_patterns, related_files>>
vars == <<fs, pc, test_class, test_method, source_info, test_file_path, dependencies,
          source_code, failure_details, analysis,
          stack_trace, all_dependencies, search_patterns, related_files,
          failures, failure_index, file_index, all_potential_bugs, prompt,
          argv, reports, report_index, test_suites, total_tests, total_failures,
          total_errors, total_skipped, summary, events, ai_response, structured_fixes>>

\* content of a file whose open() or read() raises (a directory, no
\* permission, bytes that are not UTF-8)
Unreadable == "<unreadable>"
None == "<none>"

\* the parts of the state an operation does not use
LocIdle == test_class = None /\ test_method = None /\ source_info = None
DepIdle == test_file_path = None /\ dependencies = None
BugIdle == source_code = None /\ failure_details = None /\ analysis = None
AnalysisIdle == /\ argv = None /\ reports = None /\ report_index = None
            /\ test_suites = None /\ total_tests = None /\ total_failures = None
            /\ total_errors = None /\ total_skipped = None
            /\ summary = None /\ events = None
ReplyIdle == ai_response = None /\ structured_fixes = None
MainIdle == AnalysisIdle /\ ReplyIdle
PromptIdle == /\ failures = None /\ failure_index = None /\ file_index = None
              /\ all_potential_bugs = None /\ prompt = None
RelIdle == /\ stack_trace = None /\ all_dependencies = None
           /\ search_patterns = None /\ related_files = None

(***************************************************************************)
(* MavenTestAnalyzer._get_test_source_info                                 *)
(***************************************************************************)
Qualifiers == <<"public", "private", "protected">>

\* \s+void\s+NAME\s*\([^)]*\) standing at j
SignatureRestAt(s, j, name) ==
    LET a == RunEnd(s, j, SpaceSet)
        b == RunEnd(s, a + 4, SpaceSet)
        c == RunEnd(s, b + Len(name), SpaceSet)
    IN /\ a > j
       /\ LitAt(s, a, "void")
       /\ b > a + 4
       /\ LitAt(s, b, name)
       /\ Ch(s, c) = "("
       /\ FindFrom(s, ")", c + 1) # 0

\* (public|private|protected)?\s+void\s+NAME\s*\([^)]*\) standing at i
MethodPatternAt(s, i, name) ==
    \/ \E q \in 1..Len(Qualifiers) :
          LitAt(s, i, Qualifiers[q]) /\ SignatureRestAt(s, i + Len(Qualifiers[q]), name)
    \/ SignatureRestAt(s, i, name)

\* re.search(method_pattern, content).start() + 1, 0 when there is no match
RECURSIVE MethodSearchFrom(_, _, _)
MethodSearchFrom(s, i, name) ==
    IF i > Len(s) THEN 0
    ELSE IF MethodPatternAt(s, i, name) THEN i
    ELSE MethodSearchFrom(s, i + 1, name)
MethodSearch(s, name) == MethodSearchFrom(s, 1, name)

ContextBefore == 5
ContextAfter == 30

class_path(cls) == ReplaceChar(cls, ".", "/") \o ".java"
\* the roots tried in the reverse order
possible_paths_reversed(cls) == << "test/" \o class_path(cls),
                                   "src/test/java/" \o class_path(cls),
                                   "bank/src/test/java/" \o class_path(cls) >>
possible_paths(cls) == << "bank/src/test/java/" \o class_path(cls),
                          "src/test/java/" \o class_path(cls),
                          "test/" \o class_path(cls) >>

Exists(f, path) == path \in DOMAIN f

\* a window that ends one line later
end_line_one_more(lines, method_line_index) == Min2(Len(lines), method_line_index + ContextAfter + 1)
end_line_of(lines, method_line_index) == Min2(Len(lines), method_line_index + ContextAfter)
start_line_of(method_line_index) == Max2(0, method_line_index - ContextBefore)

FoundInfo(path, content, m) ==
    LET lines == Split(content, "\n")
        method_line_index == CountChar(Mid(content, 1, m - 1), "\n")
        start_line == start_line_of(method_line_index)
        end_line == end_line_of(lines, method_line_index)
    IN [found |-> TRUE,
        path |-> path,
        method_signature |-> IF method_line_index < Len(lines)
                             THEN Strip(lines[method_line_index + 1]) ELSE "",
        context_start_line |-> start_line + 1,
        context_end_line |-> end_line,
        context |-> Join(Slice(lines, start_line, end_line), "\n")]

\* a scan that leaves no note
no_note(f, path, method) == <<>>
\* the note a path leaves when it does not yield the method, <<>> for a
\* path that does not exist
NoteOf(f, path, method) ==
    IF ~Exists(f, path) THEN <<>>
    ELSE IF f[path] = Unreadable
         THEN << "Could not read source file " \o path \o ": <error>" >>
    ELSE << "Method '" \o method \o "' not found in " \o path >>

\* re.search on the file of a path: 0 when the path yields no match
SearchIn(f, path, method) ==
    IF Exists(f, path) /\ f[path] # Unreadable THEN MethodSearch(f[path], method) ELSE 0

RECURSIVE ScanPaths(_, _, _, _, _, _)
ScanPaths(f, paths, k, cls, method, notes) ==
    IF k > Len(paths)
    THEN [found |-> FALSE, path |-> None, context |-> None,
          searched_paths |-> paths,
          notes |-> IF notes # <<>> THEN notes
                    ELSE << "Source file not found for " \o cls >>]
    ELSE LET m == SearchIn(f, paths[k], method)
         IN IF m # 0 THEN FoundInfo(paths[k], f[paths[k]], m)
            ELSE ScanPaths(f, paths, k + 1, cls, method, notes \o NoteOf(f, paths[k], method))

get_test_source_info(f, cls, method) ==
    ScanPaths(f, possible_paths(cls), 1, cls, method, <<>>)

(***************************************************************************)
(* FixSuggester.extract_test_dependencies                                  *)
(***************************************************************************)
\* [a-zA-Z0-9._]
ImportChars == WordSet \cup {"."}
\* [a-zA-Z0-9_<>]
TypeChars == WordSet \cup {"<", ">"}

ImportSuffixes == {"Service", "Controller", "Repository", "Manager", "Helper", "Util",
                   "Component", "Bean", "DAO", "Handler", "Processor", "Factory", "Builder"}
LayerSegments == {".service.", ".controller.", ".repository.", ".util.", ".model.", ".config."}
RootPrefixes == {"com", "org", "io", "net"}
Lookbehinds == {"test", "Test", "junit", "mockito", "spring.test"}
skip_keywords == {"test", "junit", "mockito", "spring.test", "hamcrest", "assertj"}
dependency_annotations == {"@Autowired", "@Mock", "@InjectMocks", "@Inject", "@Resource"}
FieldQualifiers == {"private", "protected", "public"}
FieldSuffixes == {"Service", "Repository", "Manager", "DAO", "Helper", "Util", "Handler"}

\* import\s+(NAME)\s*; standing at i, NAME the whole run of [a-zA-Z0-9._]:
\* the name, "" when the shape does not stand at i
ImportNameAt(s, i) ==
    LET a == RunEnd(s, i + 6, SpaceSet)
        e == RunEnd(s, a, ImportChars)
    IN IF LitAt(s, i, "import") /\ a > i + 6 /\ e > a /\ Ch(s, RunEnd(s, e, SpaceSet)) = ";"
       THEN Mid(s, a, e - 1) ELSE ""

ImportStatements(s) == {ImportNameAt(s, i) : i \in 1..Len(s)} \ {""}

\* [a-zA-Z0-9._]+(?:Service|...|Builder)[a-zA-Z0-9_]*
SuffixPattern(n) ==
    \E suf \in ImportSuffixes : \E p \in 2..Len(n) :
        LitAt(n, p, suf) /\ ~Contains(From(n, p + Len(suf)), ".")
\* [a-zA-Z0-9._]+(?:\.service\.|...|\.config\.)[a-zA-Z0-9._]+
LayerPattern(n) ==
    \E seg \in LayerSegments : \E p \in 2..Len(n) :
        LitAt(n, p, seg) /\ p + Len(seg) <= Len(n)
\* (?:com|org|io|net)\.[a-zA-Z0-9._]+(?<!test)(?<!Test)(?<!junit)(?<!mockito)(?<!spring\.test)
RootPattern(n) ==
    /\ \E pre \in RootPrefixes : StartsWith(n, pre \o ".") /\ Len(n) >= Len(pre) + 2
    /\ \A lb \in Lookbehinds : ~EndsWith(n, lb)

ImportPatternMatches(n) == SuffixPattern(n) \/ LayerPattern(n) \/ RootPattern(n)

\* the keyword test without lower-casing the name
SkippedCaseSensitive(class_name) == \E skip \in skip_keywords : Contains(class_name, skip)
Skipped(class_name) == \E skip \in skip_keywords : Contains(Lower(class_name), skip)

\* every imported name that no keyword excludes, whatever its shape
import_dependencies_any_shape(s) == {n \in ImportStatements(s) : ~Skipped(n)}
import_dependencies(s) ==
    {n \in ImportStatements(s) : ImportPatternMatches(n) /\ ~Skipped(n)}

\* re.sub(r'<.*?>', '', t): each '<' with a later '>' goes, up to the first such '>'
RECURSIVE StripGenerics(_)
StripGenerics(t) ==
    LET i == FindFrom(t, "<", 1)
        j == IF i = 0 THEN 0 ELSE FindFrom(t, ">", i + 1)
    IN IF j = 0 THEN t
       ELSE Mid(t, 1, i - 1) \o StripGenerics(From(t, j + 1))

\* the length of the qualifier standing at i, 0 when none does
QualifierLen(s, i) ==
    IF LitAt(s, i, "private") THEN 7
    ELSE IF LitAt(s, i, "protected") THEN 9
    ELSE IF LitAt(s, i, "public") THEN 6 ELSE 0

\* ANNOTATION(?:\([^)]*\))?\s*(?:private|protected|public)?\s*
\*   ([A-Z][a-zA-Z0-9_<>]+)\s+(\w+)\s*[;=]   standing at i: group 1, "" when no match
AnnotatedFieldAt(s, i, annotation) ==
    LET j == i + Len(annotation)
        close == IF Ch(s, j) = "(" THEN FindFrom(s, ")", j + 1) ELSE 0
        j2 == IF Ch(s, j) = "(" THEN close + 1 ELSE j
        a == RunEnd(s, j2, SpaceSet)
        b == RunEnd(s, a + QualifierLen(s, a), SpaceSet)
        e == RunEnd(s, b + 1, TypeChars)
        f == RunEnd(s, e, SpaceSet)
        g == RunEnd(s, f, WordSet)
    IN IF /\ LitAt(s, i, annotation)
          /\ (Ch(s, j) = "(" => close # 0)
          /\ Ch(s, b) \in UpperSet
          /\ e >= b + 2
          /\ f > e
          /\ g > f
          /\ Ch(s, RunEnd(s, g, SpaceSet)) \in {";", "="}
       THEN Mid(s, b, e - 1) ELSE ""

\* group 1 of every match of the field pattern of one annotation
AnnotatedFieldTypes(s) ==
    {AnnotatedFieldAt(s, i, ann) : i \in 1..Len(s), ann \in dependency_annotations} \ {""}

annotated_dependencies(s) == {StripGenerics(t) : t \in AnnotatedFieldTypes(s)}

\* (?:private|protected|public)\s+([A-Z][a-zA-Z0-9_]+(?:Service|...|Handler))\s+(\w+)\s*[;=]
FieldOnlyAt(s, i) ==
    LET q == QualifierLen(s, i)
        a == RunEnd(s, i + q, SpaceSet)
        e == RunEnd(s, a + 1, WordSet)
        f == RunEnd(s, e, SpaceSet)
        g == RunEnd(s, f, WordSet)
        t == Mid(s, a, e - 1)
    IN IF /\ q > 0
          /\ a > i + q
          /\ Ch(s, a) \in UpperSet
          /\ \E suf \in FieldSuffixes : EndsWith(t, suf) /\ Len(t) >= Len(suf) + 2
          /\ f > e
          /\ g > f
          /\ Ch(s, RunEnd(s, g, SpaceSet)) \in {";", "="}
       THEN t ELSE ""

field_only_dependencies(s) == {FieldOnlyAt(s, i) : i \in 1..Len(s)} \ {""}

\* ([^}]+)\}?\s*\) with the group starting at p: the end (exclusive) of the
\* group, 0 when there is no match.  The group is greedy: it runs to the
\* first '}' when "}\s*)" follows, and else to the last ')' before that '}'.
ClassesGroupEnd(s, p) ==
    LET brace == FindFrom(s, "}", p)
        e == IF brace = 0 THEN Len(s) + 1 ELSE brace
        parens == {q \in (p + 1)..(e - 1) : Ch(s, q) = ")"}
    IN IF e > p /\ brace # 0 /\ Ch(s, RunEnd(s, e + 1, SpaceSet)) = ")" THEN e
       ELSE IF parens # {} THEN SetMax(parens)
       ELSE 0

\* @ContextConfiguration\s*\(\s*classes\s*=\s*\{?([^}]+)\}?\s*\) standing at i:
\* group 1, "" when no match
ContextClassesAt(s, i) ==
    LET a == RunEnd(s, i + 21, SpaceSet)
        b == RunEnd(s, a + 1, SpaceSet)
        c == RunEnd(s, b + 7, SpaceSet)
        d == RunEnd(s, c + 1, SpaceSet)
        inner == IF Ch(s, d) = "{" THEN ClassesGroupEnd(s, d + 1) ELSE 0
        outer == ClassesGroupEnd(s, d)
    IN IF LitAt(s, i, "@ContextConfiguration") /\ Ch(s, a) = "("
          /\ LitAt(s, b, "classes") /\ Ch(s, c) = "="
       THEN IF inner # 0 THEN Mid(s, d + 1, inner - 1)
            ELSE IF outer # 0 THEN Mid(s, d, outer - 1)
            ELSE ""
       ELSE ""

\* re.findall(r'([A-Z][a-zA-Z0-9_]+)\.class', g): before each ".class" the
\* word from its first upper-case letter that has a letter after it
ClassRefAt(g, t) ==
    LET w == RunStart(g, t, WordSet)
        ups == {u \in w..(t - 2) : Ch(g, u) \in UpperSet}
    IN IF LitAt(g, t, ".class") /\ ups # {} THEN Mid(g, SetMin(ups), t - 1) ELSE ""

ClassRefs(g) == {ClassRefAt(g, t) : t \in 1..Len(g)} \ {""}

context_dependencies(s) ==
    UNION {ClassRefs(ContextClassesAt(s, i)) : i \in 1..Len(s)}

\* (\w+)\.(\w+)\s*\( with its '.' at d: group 1, "" when no match
ReceiverAt(s, d) ==
    LET w == RunStart(s, d, WordSet)
        e == RunEnd(s, d + 1, WordSet)
    IN IF Ch(s, d) = "." /\ w < d /\ e > d + 1 /\ Ch(s, RunEnd(s, e, SpaceSet)) = "("
       THEN Mid(s, w, d - 1) ELSE ""

Receivers(s) == {ReceiverAt(s, d) : d \in 1..Len(s)} \ {""}

\* (?:private|protected|public)?\s*([A-Z][a-zA-Z0-9_]+)\s+FIELD\s*[;=]
\* standing at i: group 1, "" when no match
FieldDeclAt(s, i, field_name) ==
    LET a == RunEnd(s, i + QualifierLen(s, i), SpaceSet)
        e == RunEnd(s, a + 1, WordSet)
        f == RunEnd(s, e, SpaceSet)
    IN IF /\ Ch(s, a) \in UpperSet
          /\ e >= a + 2
          /\ f > e
          /\ LitAt(s, f, field_name)
          /\ Ch(s, RunEnd(s, f + Len(field_name), SpaceSet)) \in {";", "="}
       THEN Mid(s, a, e - 1) ELSE ""

\* re.search(field_decl_pattern, content): group 1 of the leftmost match
FieldDeclType(s, field_name) ==
    LET P == {i \in 1..Len(s) : FieldDeclAt(s, i, field_name) # ""}
    IN IF P = {} THEN "" ELSE FieldDeclAt(s, SetMin(P), field_name)

receiver_dependencies(s) == {FieldDeclType(s, r) : r \in Receivers(s)} \ {""}

\* the body of the try block: list(set(dependencies))
dependencies_of(content) ==
    import_dependencies(content) \cup annotated_dependencies(content)
      \cup field_only_dependencies(content) \cup context_dependencies(content)
      \cup receiver_dependencies(content)

\* an extractor that reports a placeholder for a file it cannot read
extract_test_dependencies_placeholder(f, path) ==
    IF ~Exists(f, path) \/ f[path] = Unreadable THEN {"Unknown"}
    ELSE dependencies_of(f[path])
extract_test_dependencies(f, path) ==
    IF ~Exists(f, path) THEN {}
    ELSE IF f[path] = Unreadable THEN {}
    ELSE dependencies_of(f[path])

\* a copy that stops after the import statements
analyzer_imports_only(content) == import_dependencies(content)

\* MavenTestAnalyzer.extract_test_dependencies, the copy at lines 244-314:
\* the five collection steps in their order, then list(set(...)); the
\* patterns are the same texts as in the copy of the FixSuggester
analyzer_dependencies_of(content) ==
    LET imports == import_dependencies(content)
        annotated == imports \cup annotated_dependencies(content)
        fields == annotated \cup field_only_dependencies(content)
        context == fields \cup context_dependencies(content)
    IN context \cup receiver_dependencies(content)
analyzer_extract_test_dependencies(f, path) ==
    IF ~Exists(f, path) THEN {}
    ELSE IF f[path] = Unreadable THEN {}
    ELSE analyzer_dependencies_of(f[path])

(***************************************************************************)
(* FixSuggester.find_related_source_files                                  *)
(***************************************************************************)
\* s.replace(old, new) for a non-empty old
RECURSIVE Replace(_, _, _)
Replace(s, old, new) ==
    LET p == FindFrom(s, old, 1)
    IN IF p = 0 THEN s
       ELSE Mid(s, 1, p - 1) \o new \o Replace(From(s, p + Len(old)), old, new)

\* os.path.join of two parts
PathJoin(a, b) == IF StartsWith(b, "/") \/ a = "" THEN b
                  ELSE IF EndsWith(a, "/") THEN a \o b
                  ELSE a \o "/" \o b
Basename(p) == From(p, FindLast(p, "/") + 1)
Dirname(p) == Mid(p, 1, FindLast(p, "/") - 1)
\* p lies in the directory dir or below it
Under(p, dir) == StartsWith(p, IF EndsWith(dir, "/") THEN dir ELSE dir \o "/")
\* the path as the operating system resolves it: repeated separators count
\* as one
RECURSIVE Resolved(_)
Resolved(p) == IF Contains(p, "//") THEN Resolved(Replace(p, "//", "/")) ELSE p
\* os.path.exists: a file of the tree, or a directory that holds one
PathExists(f, p) == Resolved(p) \in DOMAIN f \/ \E q \in DOMAIN f : Under(q, Resolved(p))

\* the orders in which the elements of a set can be iterated
Orders(S) == {o \in [1..Cardinality(S) -> S] :
                 \A i, j \in 1..Cardinality(S) : i # j => o[i] # o[j]}
\* the orders in which a walk can meet the files: os.walk is top-down, the
\* files of a directory come before the files of the directories below it
WalkOrders(f, dirs) == {o \in Orders({p \in DOMAIN f : \E d \in 1..Len(dirs) : Under(p, dirs[d])}) :
                     \A i, j \in 1..Len(o) :
                        i < j => ~(Dirname(o[j]) # Dirname(o[i]) /\ Under(o[i], Dirname(o[j])))}

InSeq(seq, x) == \E i \in 1..Len(seq) : seq[i] = x
RECURSIVE Flatten(_)
Flatten(seqs) == IF Len(seqs) = 0 THEN <<>> ELSE Head(seqs) \o Flatten(Tail(seqs))

test_suffixes == <<"Test", "Tests", "IT", "Integration">>
\* the simple name without every suffix of the list, one after the other
RECURSIVE StripEverySuffix(_, _)
StripEverySuffix(name, k) ==
    IF k > Len(test_suffixes) THEN name
    ELSE IF EndsWith(name, test_suffixes[k])
         THEN StripEverySuffix(Mid(name, 1, Len(name) - Len(test_suffixes[k])), 1)
         ELSE StripEverySuffix(name, k + 1)
\* the simple name without the first suffix of the list it ends with
RECURSIVE StripFirstSuffix(_, _)
StripFirstSuffix(name, k) ==
    IF k > Len(test_suffixes) THEN name
    ELSE IF EndsWith(name, test_suffixes[k])
         THEN Mid(name, 1, Len(name) - Len(test_suffixes[k]))
         ELSE StripFirstSuffix(name, k + 1)
SimpleName(cls) == LET parts == Split(cls, ".") IN parts[Len(parts)]
base_class_name(cls) == StripFirstSuffix(SimpleName(cls), 1)

\* one line of the stack trace
IsFrameLine(line) == Contains(line, "at ") /\ Contains(line, ".java:")
class_part(line) == Split(Split(line, "at ")[2], "(")[1]
\* class_part.rsplit('.', 1)[0]
full_class_name(line) ==
    LET cp == class_part(line)
        p == FindLast(cp, ".")
    IN IF p = 0 THEN cp ELSE Mid(cp, 1, p - 1)
\* the last dotted part instead of the one before it
class_name_last(line) ==
    LET parts == Split(class_part(line), ".")
    IN IF Len(parts) >= 2 THEN parts[Len(parts)] ELSE ""
\* class_part.split('.')[-2], "" for None
class_name(line) ==
    LET parts == Split(class_part(line), ".")
    IN IF Len(parts) >= 2 THEN parts[Len(parts) - 1] ELSE ""
\* the test of the class name that lets a frame contribute
FrameCounts(line) == class_name(line) # "" /\ ~EndsWith(class_name(line), "Test")
FrameLines(trace) ==
    IF trace = "" THEN {}
    ELSE LET lines == Split(trace, "\n")
         IN {lines[i] : i \in {j \in 1..Len(lines) : IsFrameLine(lines[j])}}
stack_classes(trace) == {class_name(l) : l \in {m \in FrameLines(trace) : FrameCounts(m)}}
stack_dependencies(trace) ==
    {full_class_name(l) :
        l \in {m \in FrameLines(trace) :
                  /\ FrameCounts(m)
                  /\ full_class_name(m) # ""
                  /\ ~EndsWith(full_class_name(m), "Test")}}

\* steps 1 and 3: the dependency names
collect_dependencies(f, trace, path) ==
    (IF path = None \/ path = "" THEN {} ELSE extract_test_dependencies(f, path))
       \cup stack_dependencies(trace)

pattern_suffixes == <<"", "Service", "Controller", "Repository", "Manager">>
\* the last dotted part of a dependency, or the dependency itself
DependencyPattern(dependency) ==
    LET parts == Split(dependency, ".") IN parts[Len(parts)]
\* steps 4 and 5, the sets being iterated in the orders so and do
patterns_of(cls, so, do) ==
    [k \in 1..Len(pattern_suffixes) |-> base_class_name(cls) \o pattern_suffixes[k]]
      \o so
      \o [k \in 1..Len(do) |-> DependencyPattern(do[k])]

possible_source_roots == <<".", "bank", "src", "main">>
source_subdirs == <<"src/main/java", "main/java", "java">>
RECURSIVE Dedupe(_)
Dedupe(seq) == IF Len(seq) = 0 THEN <<>>
               ELSE LET front == Dedupe(SubSeq(seq, 1, Len(seq) - 1))
                    IN IF InSeq(front, seq[Len(seq)]) THEN front
                       ELSE Append(front, seq[Len(seq)])
\* step 6
source_dirs(f) ==
    LET potential == Flatten([r \in 1..Len(possible_source_roots) |->
                       [d \in 1..Len(source_subdirs) |->
                          IF possible_source_roots[r] = "." THEN source_subdirs[d]
                          ELSE PathJoin(possible_source_roots[r], source_subdirs[d])]])
    IN Dedupe(SelectSeq(potential, LAMBDA d : PathExists(f, d)))

\* the list with every found path appended
AppendAlways(files, found) == Append(files, found)
\* lines 888-889, 898-899, 920-921: append unless already listed
AppendIfNew(files, found) == IF InSeq(files, found) THEN files ELSE Append(files, found)
RECURSIVE ExtendNew(_, _)
ExtendNew(files, found) ==
    IF Len(found) = 0 THEN files
    ELSE ExtendNew(AppendIfNew(files, Head(found)), Tail(found))

\* the file name test of the walk
MatchesPattern(file, pattern) == EndsWith(file, ".java") /\ Contains(file, pattern)
\* the files one walk of source_dir yields for one pattern, in walk order
WalkMatches(source_dir, pattern, walk) ==
    SelectSeq(walk, LAMBDA q : Under(q, source_dir) /\ MatchesPattern(Basename(q), pattern))
\* step 7: every hit of the walks, in the order the loops meet them
walk_hits(dirs, patterns, walk) ==
    Flatten([d \in 1..Len(dirs) |->
               Flatten([k \in 1..Len(patterns) |-> WalkMatches(dirs[d], patterns[k], walk)])])

\* the potential files of the dotted dependencies, existing or not
probe_hits_unchecked(f, dirs, do) ==
    Flatten([k \in 1..Len(do) |->
               IF Contains(do[k], ".")
               THEN [d \in 1..Len(dirs) |->
                       PathJoin(dirs[d], Replace(do[k], ".", "/") \o ".java")]
               ELSE <<>>])
package_path(dependency) == Replace(dependency, ".", "/") \o ".java"
\* step 8: the potential files that exist, for the dotted dependencies
probe_hits(f, dirs, do) ==
    Flatten([k \in 1..Len(do) |->
               IF Contains(do[k], ".")
               THEN SelectSeq([d \in 1..Len(dirs) |-> PathJoin(dirs[d], package_path(do[k]))],
                              LAMBDA q : PathExists(f, q))
               ELSE <<>>])

test_package(cls) == LET parts == Split(cls, ".") IN Join(SubSeq(parts, 1, Len(parts) - 1), ".")
main_package_variants(pkg) ==
    << Replace(Replace(pkg, ".test.junit.", "."), ".test.", "."),
       Replace(pkg, ".test.junit.search", ".service"),
       Replace(pkg, ".test.junit", ".service"),
       Replace(pkg, ".test", "") >>
\* the name of the entry of directory dir through which q is reached
ChildName(q, dir) ==
    LET rest == From(q, Len(dir) + 2)
        p == FindFrom(rest, "/", 1)
    IN IF p = 0 THEN rest ELSE Mid(rest, 1, p - 1)
\* os.listdir of a directory that exists: the names of the files and of the
\* directories directly in it, in the order the listing gives them
ListDir(package_dir, walk) ==
    LET dir == IF EndsWith(package_dir, "/") THEN Mid(package_dir, 1, Len(package_dir) - 1)
               ELSE package_dir
        below == SelectSeq(walk, LAMBDA q : Under(q, dir))
    IN Dedupe([n \in 1..Len(below) |-> ChildName(below[n], dir)])
\* step 9: the .java entries of the guessed main-package directories
package_hits(f, dirs, cls, walk) ==
    IF test_package(cls) = "" THEN <<>>
    ELSE LET variants == main_package_variants(test_package(cls))
         IN Flatten([v \in 1..Len(variants) |->
              Flatten([d \in 1..Len(dirs) |->
                 LET package_dir == PathJoin(dirs[d], Replace(variants[v], ".", "/"))
                 IN IF PathExists(f, package_dir)
                    THEN LET names == SelectSeq(ListDir(package_dir, walk),
                                                LAMBDA n : EndsWith(n, ".java"))
                         IN [n \in 1..Len(names) |-> PathJoin(package_dir, names[n])]
                    ELSE <<>>])])

\* the three steps with the probe before the walk
find_related_probe_first(f, cls, trace, path, so, do, walk) ==
    [all_dependencies |-> (IF path = None \/ path = "" THEN {}
                           ELSE extract_test_dependencies(f, path))
                            \cup stack_dependencies(trace),
     search_patterns |-> patterns_of(cls, so, do),
     related_files |->
         ExtendNew(ExtendNew(ExtendNew(<<>>, probe_hits(f, source_dirs(f), do)),
                             walk_hits(source_dirs(f), patterns_of(cls, so, do), walk)),
                   package_hits(f, source_dirs(f), cls, walk))]
\* The whole function.  so and do are the orders in which the sets
\* stack_classes and all_dependencies are iterated, walk the order in which
\* the directory listings give the files.
find_related_source_files(f, cls, trace, path, so, do, walk) ==
    LET dirs == source_dirs(f)
        patterns == patterns_of(cls, so, do)
    IN [all_dependencies |-> collect_dependencies(f, trace, path),
        search_patterns |-> patterns,
        related_files |->
            ExtendNew(ExtendNew(ExtendNew(<<>>, walk_hits(dirs, patterns, walk)),
                                probe_hits(f, dirs, do)),
                      package_hits(f, dirs, cls, walk))]

(***************************************************************************)
(* FixSuggester.analyze_code_for_logic_bugs                                *)
(***************************************************************************)
\* the value of a run of decimal digits
RECURSIVE DigitsValue(_, _)
DigitsValue(d, acc) ==
    IF d = "" THEN acc
    ELSE DigitsValue(From(d, 2),
                     10 * acc + (CHOOSE v \in 0..9 : Ch(DigitChars, v + 1) = Ch(d, 1)))

\* int(text): surrounding whitespace, one optional sign, digits with single
\* underscores between them; ok is FALSE where int() raises ValueError
ParseInt(text) ==
    LET t == Strip(text)
        signed == Ch(t, 1) \in {"+", "-"}
        body == IF signed THEN From(t, 2) ELSE t
        digits == ReplaceChar(body, "_", "")
        ok == /\ body # ""
              /\ \A i \in 1..Len(body) : Ch(body, i) \in DigitSet \cup {"_"}
              /\ Ch(body, 1) # "_" /\ Ch(body, Len(body)) # "_"
              /\ ~Contains(body, "__")
    IN [ok |-> ok,
        value |-> IF ~ok THEN 0
                  ELSE IF Ch(t, 1) = "-" THEN 0 - DigitsValue(digits, 0)
                  ELSE DigitsValue(digits, 0)]

\* count\s*OP\s*(\d+) with re.IGNORECASE standing at i
CountComparisonAt(line, i, operator) ==
    LET a == RunEnd(line, i + 5, SpaceSet)
        b == RunEnd(line, a + Len(operator), SpaceSet)
    IN /\ Lower(Mid(line, i, i + 4)) = "count"
       /\ LitAt(line, a, operator)
       /\ Ch(line, b) \in DigitSet

\* int(match.group(1)) of re.search: -1 when there is no match
CountComparisonValue(line, operator) ==
    LET P == {i \in 1..Len(line) : CountComparisonAt(line, i, operator)}
        i == SetMin(P)
        b == RunEnd(line, RunEnd(line, i + 5, SpaceSet) + Len(operator), SpaceSet)
    IN IF P = {} THEN 0 - 1
       ELSE DigitsValue(Mid(line, b, RunEnd(line, b, DigitSet) - 1), 0)

operators == <<">", ">=", "<", "<=">>
size_keywords == <<"size()", "length", "count", ".size", ".length()">>

\* the test with a strict comparison of the constant
FlagsOffByOneStrict(operator, comparison_value, expected_count) ==
    operator \in {">", ">="} /\ comparison_value > expected_count
\* the test that flags a comparison
FlagsOffByOne(operator, comparison_value, expected_count) ==
    operator \in {">", ">="} /\ comparison_value >= expected_count

OffByOne(i, line_clean, operator, comparison_value, expected_count) ==
    [line_number |-> i,
     line_content |-> line_clean,
     bug_type |-> "off_by_one_error",
     description |-> "Condition requires count " \o operator \o " "
                       \o ToString(comparison_value) \o ", but test expects "
                       \o ToString(expected_count) \o " items",
     suggested_fix |-> "Change to \"count > 0\" or \"count >= "
                         \o ToString(expected_count) \o "\"",
     confidence |-> "high"]

SizeCheck(i, line_clean, expected_count) ==
    [line_number |-> i,
     line_content |-> line_clean,
     bug_type |-> "size_check_error",
     description |-> "Size check on line " \o ToString(i)
                       \o " might prevent returning expected "
                       \o ToString(expected_count) \o " items",
     suggested_fix |-> "Review the size comparison logic",
     confidence |-> "medium"]

EmptyReturn(i, line_clean) ==
    [line_number |-> i,
     line_content |-> line_clean,
     bug_type |-> "empty_return",
     description |-> "Empty return statement might be executed when data should be returned",
     suggested_fix |-> "Check if this return should be conditional",
     confidence |-> "medium"]

\* the loop over the operators, from the k-th on
RECURSIVE OffByOneFrom(_, _, _, _)
OffByOneFrom(k, i, line_clean, expected_count) ==
    IF k > Len(operators) THEN <<>>
    ELSE LET operator == operators[k]
             v == IF Contains(line_clean, operator)
                  THEN CountComparisonValue(line_clean, operator) ELSE 0 - 1
         IN (IF v >= 0 /\ FlagsOffByOne(operator, v, expected_count)
             THEN <<OffByOne(i, line_clean, operator, v, expected_count)>> ELSE <<>>)
            \o OffByOneFrom(k + 1, i, line_clean, expected_count)

\* the loop over the size keywords, from the k-th on
RECURSIVE SizeChecksFrom(_, _, _, _)
SizeChecksFrom(k, i, line_clean, expected_count) ==
    IF k > Len(size_keywords) THEN <<>>
    ELSE (IF /\ Contains(Lower(line_clean), size_keywords[k])
             /\ \E o \in 1..Len(operators) : Contains(line_clean, operators[o])
          THEN <<SizeCheck(i, line_clean, expected_count)>> ELSE <<>>)
         \o SizeChecksFrom(k + 1, i, line_clean, expected_count)

\* the body of the loop for line i (1-based)
LineBugs(i, line, expected_count) ==
    LET line_clean == Strip(line)
    IN (IF StartsWith(line_clean, "if") /\ Contains(Lower(line_clean), "count")
        THEN OffByOneFrom(1, i, line_clean, expected_count) ELSE <<>>)
       \o SizeChecksFrom(1, i, line_clean, expected_count)
       \o (IF /\ Contains(line_clean, "return")
              /\ \/ Contains(Lower(line_clean), "empty")
                 \/ Contains(Lower(line_clean), "new arraylist()")
                 \/ Contains(Lower(line_clean), "collections.emptylist()")
                 \/ Contains(line_clean, "return [];")
           THEN <<EmptyReturn(i, line_clean)>> ELSE <<>>)

RECURSIVE BugsFrom(_, _, _)
BugsFrom(lines, i, expected_count) ==
    IF i > Len(lines) THEN <<>>
    ELSE LineBugs(i, lines[i], expected_count) \o BugsFrom(lines, i + 1, expected_count)

\* the guard without the test of actual
ActivatedAnyActual(expected, actual) ==
    expected # "" /\ ParseInt(expected).ok /\ ParseInt(expected).value > 0
\* the guard of the scan: expected is non-empty, actual is "0" and
\* int(expected) is positive
Activated(expected, actual) ==
    /\ expected # ""
    /\ actual = "0"
    /\ ParseInt(expected).ok
    /\ ParseInt(expected).value > 0

\* A failure record carries its assertion_details as
\*   [kind |-> "absent"]                      no such key
\*   [kind |-> "null"]                        the key with the value None
\*   [kind |-> "dict", expected, actual]      the parsed values
\* The result is [raised, bugs]: .get('assertion_details', {}) gives None
\* for a null entry and the .get on it raises AttributeError.
analyze_code_for_logic_bugs(code, details) ==
    IF code = "" THEN [raised |-> FALSE, bugs |-> <<>>]
    ELSE IF details.kind = "null" THEN [raised |-> TRUE, bugs |-> <<>>]
    ELSE IF details.kind = "absent" THEN [raised |-> FALSE, bugs |-> <<>>]
    ELSE IF ~Activated(details.expected, details.actual) THEN [raised |-> FALSE, bugs |-> <<>>]
    ELSE [raised |-> FALSE,
          bugs |-> BugsFrom(Split(code, "\n"), 1, ParseInt(details.expected).value)]

(***************************************************************************)
(* FixSuggester.load_source_code and FixSuggester.generate_prompt          *)
(***************************************************************************)
\* a loader that hands on whatever it finds
load_source_code_unguarded(f, file_path) ==
    IF Resolved(file_path) \in DOMAIN f THEN f[Resolved(file_path)] ELSE "<missing>"
\* the text of the file, "" when it is missing or cannot be read
load_source_code(f, file_path) ==
    IF Resolved(file_path) \notin DOMAIN f THEN ""
    ELSE IF f[Resolved(file_path)] = Unreadable THEN ""
    ELSE f[Resolved(file_path)]

\* annotations carried over from the record before
carried_potential_bugs(collected) == collected
\* line 1052: the annotations of a record start from the empty list
fresh_potential_bugs(collected) == <<>>

\* all_potential_bugs.extend([(related_file, bug) for bug in bugs])
ExtendBugs(collected, related_file, bugs) ==
    collected \o [k \in 1..Len(bugs) |-> [file_path |-> related_file, bug |-> bugs[k]]]

(***************************************************************************)
(* MavenTestAnalyzer: the reports and the summary.  A report is the        *)
(* element tree of its file:                                               *)
(*   [wellformed, name, tests, failures, errors, skipped, testcases]       *)
(* with the attribute texts as strings, a test case                        *)
(*   [classname, name, failure, error]                                     *)
(* and a failure or error child [present, message, text].                  *)
(***************************************************************************)
NoElement == [present |-> FALSE, message |-> "", text |-> ""]

\* _extract_failure_message: [raised, value]; splitlines()[0] of a text of
\* blanks only raises IndexError
extract_failure_message(raw_text) ==
    IF raw_text = "" THEN [raised |-> FALSE, value |-> ""]
    ELSE IF Strip(raw_text) = "" THEN [raised |-> TRUE, value |-> ""]
    ELSE [raised |-> FALSE, value |-> Strip(Split(Strip(raw_text), "\n")[1])]

\* _extract_stack_trace
extract_stack_trace(raw_text) ==
    IF raw_text = "" THEN ""
    ELSE LET lines == Split(Strip(raw_text), "\n")
         IN IF Len(lines) <= 1 THEN Strip(raw_text)
            ELSE Strip(Join(Tail(lines), "\n"))

\* the end (exclusive) of the line that position i is on
LineEnd(s, i) == LET p == FindFrom(s, "\n", i) IN IF p = 0 THEN Len(s) + 1 ELSE p
\* <(.*)> standing at a: the positions of a closing '>' on the line
ClosersAt(s, a) == {j \in (a + 1)..(LineEnd(s, a + 1) - 1) : Ch(s, j) = ">"}
\* \s*but was:\s*<(.*)> standing at k: the position of the '<', 0 when none
ButWasAt(s, k) ==
    LET b == RunEnd(s, k, SpaceSet)
        c == RunEnd(s, b + 8, SpaceSet)
    IN IF LitAt(s, b, "but was:") /\ Ch(s, c) = "<" /\ ClosersAt(s, c) # {} THEN c ELSE 0
\* expected:\s*<(.*)>\s*but was:\s*<(.*)> standing at i
ExpectedAt(s, i) ==
    /\ LitAt(s, i, "expected:")
    /\ Ch(s, RunEnd(s, i + 9, SpaceSet)) = "<"
    /\ \E j \in ClosersAt(s, RunEnd(s, i + 9, SpaceSet)) : ButWasAt(s, j + 1) # 0
\* _extract_assertion_details, None being [kind |-> "null"]
extract_assertion_details(message) ==
    LET P == {i \in 1..Len(message) : ExpectedAt(message, i)}
    IN IF message = "" \/ P = {} THEN [kind |-> "null"]
       ELSE LET a == RunEnd(message, SetMin(P) + 9, SpaceSet)
                j == SetMax({x \in ClosersAt(message, a) : ButWasAt(message, x + 1) # 0})
                c == ButWasAt(message, j + 1)
            IN [kind |-> "dict",
                expected |-> Mid(message, a + 1, j - 1),
                actual |-> Mid(message, c + 1, SetMax(ClosersAt(message, c)) - 1)]

\* the TestFailure built from a failure or error child: [raised, failure]
test_failure(testcase, elem, category) ==
    LET extracted == extract_failure_message(elem.text)
    IN [raised |-> elem.message = "" /\ extracted.raised,
        failure |-> [test_class |-> testcase.classname,
                     test_method |-> testcase.name,
                     failure_message |-> IF elem.message # "" THEN elem.message
                                         ELSE extracted.value,
                     stack_trace |-> extract_stack_trace(elem.text),
                     failure_category |-> category,
                     raw_failure_text |-> elem.text]]

\* the records for the test cases from the k-th on: [raised, failures]
RECURSIVE TestCaseFailures(_, _, _)
TestCaseFailures(testcases, k, sofar) ==
    IF k > Len(testcases) THEN [raised |-> FALSE, failures |-> sofar]
    ELSE LET tc == testcases[k]
             f == test_failure(tc, tc.failure, "failure")
             e == test_failure(tc, tc.error, "error")
             withf == IF tc.failure.present THEN Append(sofar, f.failure) ELSE sofar
             withe == IF tc.error.present THEN Append(withf, e.failure) ELSE withf
         IN IF tc.failure.present /\ f.raised THEN [raised |-> TRUE, failures |-> sofar]
            ELSE IF tc.error.present /\ e.raised THEN [raised |-> TRUE, failures |-> withf]
            ELSE TestCaseFailures(testcases, k + 1, withe)

\* _parse_single_xml_report on the analyzer state a: [raised, analyzer]
parse_single_xml_report(a, xml_file, report) ==
    LET tests == ParseInt(report.tests)
        failed == ParseInt(report.failures)
        errors == ParseInt(report.errors)
        skipped == ParseInt(report.skipped)
        counted == [a EXCEPT !.total_tests = @ + tests.value,
                             !.total_failures = @ + failed.value,
                             !.total_errors = @ + errors.value,
                             !.total_skipped = @ + skipped.value]
        cases == TestCaseFailures(report.testcases, 1, <<>>)
    IN IF ~report.wellformed THEN [raised |-> TRUE, analyzer |-> a]
       ELSE IF ~(tests.ok /\ failed.ok /\ errors.ok /\ skipped.ok)
            THEN [raised |-> TRUE, analyzer |-> a]
       ELSE IF cases.raised THEN [raised |-> TRUE, analyzer |-> counted]
       ELSE [raised |-> FALSE,
             analyzer |-> [counted EXCEPT !.test_suites =
                             Append(@, [name |-> report.name,
                                        report_file |-> xml_file,
                                        tests |-> tests.value,
                                        failures |-> failed.value,
                                        errors |-> errors.value,
                                        skipped |-> skipped.value,
                                        test_failures |-> cases.failures])]]

\* the body of the loop of parse_xml_reports: an exception is logged and the
\* loop goes on
parse_report_unguarded(a, xml_file, report) == parse_single_xml_report(a, xml_file, report)
try_parse_report(a, xml_file, report) ==
    [raised |-> FALSE, analyzer |-> parse_single_xml_report(a, xml_file, report).analyzer]

\* the entry of the summary for one TestFailure
failure_dict(f, failure) ==
    [test_class |-> failure.test_class,
     test_method |-> failure.test_method,
     failure_category |-> failure.failure_category,
     failure_message |-> failure.failure_message,
     stack_trace |-> failure.stack_trace,
     assertion_details |->
        extract_assertion_details(IF failure.failure_message # ""
                                  THEN failure.failure_message
                                  ELSE failure.raw_failure_text),
     test_source |-> get_test_source_info(f, failure.test_class, failure.test_method)]

\* generate_failures_summary: the payload written to the summary file
failures_summary(f, a) ==
    [summary |-> [total_tests |-> a.total_tests,
                  total_failures |-> a.total_failures,
                  total_errors |-> a.total_errors,
                  total_skipped |-> a.total_skipped],
     suites |-> [k \in 1..Len(a.test_suites) |->
                   [name |-> a.test_suites[k].name,
                    failures |-> [n \in 1..Len(a.test_suites[k].test_failures) |->
                                    failure_dict(f, a.test_suites[k].test_failures[n])]]]]

\* the failure entries generate_prompt goes through, suite after suite
summary_failures(payload) ==
    Flatten([k \in 1..Len(payload.suites) |->
               [n \in 1..Len(payload.suites[k].failures) |->
                  LET failure == payload.suites[k].failures[n]
                  IN [test_class |-> failure.test_class,
                      stack_trace |-> failure.stack_trace,
                      test_file_path |-> failure.test_source.path,
                      assertion_details |-> failure.assertion_details,
                      failure_category |-> failure.failure_category,
                      test_method |-> failure.test_method]]])

(***************************************************************************)
(* The test sources the locator is run on.                                 *)
(***************************************************************************)
MaxPre == 20
MaxPost == 31

Signatures == { "    public void t() {",
                "    void t() {",
                "    @Test\n\n    void t () {",
                "protected\n  void\tt(int a)\n{" }

TestFile(pre, sig, post) == Rep("x\n", pre) \o sig \o Rep("\nx", post)

\* files of the test class that do not hold the method t
OtherFiles == { "class Foo {}", "    public void tt() {\n}", "void t() {" }

PostChoices == {0, MaxPost - 3, MaxPost - 2, MaxPost - 1, MaxPost}
TestFiles == {TestFile(pre, sig, post) : pre \in 0..MaxPre, sig \in Signatures, post \in PostChoices}
\* the files tried with every layout of the three roots
\* files that end with a newline, as text files do
TrailingFiles == {TestFile(pre, sig, post) \o "\n" :
                     pre \in {0, 7}, sig \in Signatures, post \in {0, 2}}
LayoutFiles == {TestFile(pre, sig, 1) : pre \in {0, 6}, sig \in Signatures}
FileKinds == {"absent", "unreadable", "other", "main"}

\* the tree in which root k holds the file of kind[k]
TreeOf(cls, kind, other, main) ==
    LET paths == possible_paths(cls)
        here == {k \in 1..3 : kind[k] # "absent"}
    IN [p \in {paths[k] : k \in here} |->
          LET k == CHOOSE k \in here : paths[k] = p
          IN IF kind[k] = "unreadable" THEN Unreadable
             ELSE IF kind[k] = "other" THEN other ELSE main]

LocateInit ==
    /\ test_class = "p.Foo"
    /\ test_method = "t"
    /\ pc = "locate"
    /\ source_info = None
    /\ DepIdle
    /\ BugIdle
    /\ MainIdle
    /\ RelIdle
    /\ PromptIdle
    /\ \/ \E main \in LayoutFiles, other \in OtherFiles, kind \in [1..3 -> FileKinds] :
             fs = TreeOf("p.Foo", kind, other, main)
       \/ \E main \in TestFiles \cup TrailingFiles, r \in 1..3 :
             fs = TreeOf("p.Foo", [k \in 1..3 |-> IF k = r THEN "main" ELSE "absent"],
                         "class Foo {}", main)

GetTestSourceInfo ==
    /\ pc = "locate"
    /\ source_info' = get_test_source_info(fs, test_class, test_method)
    /\ pc' = "located"
    /\ UNCHANGED <<fs, test_class, test_method, depVars, bugVars, relVars, promptVars, mainVars>>

LocateNext == GetTestSourceInfo

SpecLocate == LocateInit /\ [][LocateNext]_vars

(***************************************************************************)
(* The test sources the dependency extractor is run on: up to              *)
(* MaxStatements statements, one per line.                                 *)
(***************************************************************************)
MaxStatements == 2

Statements == { "import com.bank.service.SearchService;",
                "import org.mockito.Mock;",
                "import com.bank.TestHelper;",
                "import TestHelper;",
                "import java.io.File;",
                "@Autowired\nprivate List<String> repo;",
                "@Mock private List<List<String>> nested;",
                "private TestHelper helper;",
                "@ContextConfiguration(classes = {AppConfig.class})",
                "atm.find(q);",
                "AtmLocator atm;",
                "int x = 1;" }

RECURSIVE TextsOf(_)
TextsOf(n) == IF n = 0 THEN {""}
              ELSE LET shorter == TextsOf(n - 1)
                   IN shorter \cup {IF t = "" THEN st ELSE t \o "\n" \o st :
                                       t \in shorter, st \in Statements}
DepTexts == TextsOf(MaxStatements)

DepTestPath == "src/test/java/p/FooTest.java"

DepsInit ==
    /\ pc = "extract"
    /\ test_file_path = DepTestPath
    /\ dependencies = None
    /\ LocIdle
    /\ BugIdle
    /\ MainIdle
    /\ RelIdle
    /\ PromptIdle
    /\ \/ \E text \in DepTexts \cup {Unreadable} : fs = [p \in {DepTestPath} |-> text]
       \/ fs = [p \in {} |-> ""]

ExtractTestDependencies ==
    /\ pc = "extract"
    /\ dependencies' = extract_test_dependencies(fs, test_file_path)
    /\ pc' = "extracted"
    /\ UNCHANGED <<fs, test_file_path, locVars, bugVars, relVars, promptVars, mainVars>>

DepsNext == ExtractTestDependencies

SpecDeps == DepsInit /\ [][DepsNext]_vars

(***************************************************************************)
(* The sources and failure records the annotator is run on: up to          *)
(* MaxSourceLines lines.                                                   *)
(***************************************************************************)
MaxSourceLines == 2

CodeLines == { "if (count > 3) {",
               "  if (count >= 3) {",
               "if (itemCount > 10) {",
               "if (count < 3) {",
               "if (count > 2) {",
               "if (list.size() > 0) {",
               "return new ArrayList();",
               "total = count;" }

RECURSIVE SourcesOf(_)
SourcesOf(n) == IF n = 0 THEN {""}
                ELSE LET shorter == SourcesOf(n - 1)
                     IN shorter \cup {IF t = "" THEN l ELSE t \o "\n" \o l :
                                         t \in shorter, l \in CodeLines}
Sources == SourcesOf(MaxSourceLines)

ExpectedTexts == {"3", "0", "abc", "", " 2 ", "-1", "10"}
ActualTexts == {"0", "1", "3"}
AssertionDetails ==
    {[kind |-> "absent"], [kind |-> "null"]}
      \cup {[kind |-> "dict", expected |-> e, actual |-> a] :
               e \in ExpectedTexts, a \in ActualTexts}

BugsInit ==
    /\ pc = "analyze"
    /\ source_code \in Sources
    /\ failure_details \in AssertionDetails
    /\ analysis = None
    /\ fs = [p \in {} |-> ""]
    /\ LocIdle
    /\ DepIdle
    /\ RelIdle
    /\ PromptIdle
    /\ MainIdle

AnalyzeCodeForLogicBugs ==
    /\ pc = "analyze"
    /\ analysis' = analyze_code_for_logic_bugs(source_code, failure_details)
    /\ pc' = "analyzed"
    /\ UNCHANGED <<fs, source_code, failure_details, locVars, depVars, relVars, promptVars, mainVars>>

BugsNext == AnalyzeCodeForLogicBugs

SpecBugs == BugsInit /\ [][BugsNext]_vars

(***************************************************************************)
(* The trees, test classes and stack traces find_related_source_files is   *)
(* run on: up to MaxFiles source files and up to MaxFrames stack lines.    *)
(***************************************************************************)
MaxFiles == 3
MaxFrames == 2

AtmTestClass == "com.example.bank.test.junit.search.AtmLocationSearchTest"
AtmFrame == "at com.example.bank.service.AtmLocationService.search(AtmLocationService.java:42)"
AtmDependency == "com.example.bank.service.AtmLocationService"
AtmFile == "com/example/bank/service/AtmLocationService.java"

SourcePool == { "src/main/java/p/Foo.java",
                "src/main/java/p/q/FooService.java",
                "java/p/Foo.java",
                "src/main/java/p/notes.txt",
                "src/main/java/Bar.java" }
AtmPool == { "src/main/java/" \o AtmFile,
             "bank/src/main/java/" \o AtmFile,
             "src/main/java/com/example/bank/search/AtmLocationSearch.java" }
RelTestClasses == {"p.FooTest", "p.test.BarIT"}
\* the test classes the base name is derived from
SuffixTestClasses == {"p.FooTests", "p.FooIntegration", "p.Foo", "FooTestTest",
                      "p.FooIntegrationTest", "p.FooTestIT", "p.Test", "p.FooTestsIT",
                      "p.FooTest.Bar", "p.Latest"}
Frames == { "at p.Foo.m(Foo.java:1)",
            "at p.FooTest.t(FooTest.java:3)",
            "at p.FooIT.run(FooIT.java:2)",
            "at org.junit.Assert.fail(Assert.java:88)",
            "java.lang.AssertionError: expected:<3> but was:<0>" }
RECURSIVE TracesOf(_)
TracesOf(n) == IF n = 0 THEN {""}
               ELSE LET shorter == TracesOf(n - 1)
                    IN shorter \cup {IF t = "" THEN l ELSE t \o "\n" \o l :
                                        t \in shorter, l \in Frames}
StackTraces == TracesOf(MaxFrames)

RelTestPath == "src/test/java/p/FooTest.java"
RelTestTexts == {"@Autowired\nprivate Foo foo;", "import com.p.q.FooService;", Unreadable}
AtmTestText == "import com.example.bank.service.AtmLocationService;"
\* the trees with the files of S and the test file when it has a text
Tree(S, text) ==
    IF text = None THEN [p \in S |-> "x"]
    ELSE [p \in S \cup {RelTestPath} |-> IF p = RelTestPath THEN text ELSE "x"]
TreesWith(texts) ==
    {Tree(S, t) : S \in {T \in SUBSET SourcePool : Cardinality(T) <= MaxFiles}, t \in texts}
\* the trees the stack traces are tried on; in the last one Foo.java is a
\* directory
FrameTrees == { Tree({"src/main/java/p/Foo.java", "src/main/java/Bar.java"}, None),
                Tree({"java/p/Foo.java"}, None),
                Tree({"src/main/java/FooManager.java",
                      "src/main/java/p/Foo.java/package.html",
                      "src/main/java/p/Util.java"}, None) }
AtmTrees == {Tree(S, t) : S \in SUBSET AtmPool, t \in {AtmTestText, None}}

RelatedInit ==
    /\ pc = "find"
    /\ \/ /\ \/ fs \in TreesWith({None}) /\ test_file_path \in {None, RelTestPath}
             \/ fs \in TreesWith(RelTestTexts) /\ test_file_path = RelTestPath
          /\ test_class \in RelTestClasses
          /\ stack_trace \in {"", "at p.Foo.m(Foo.java:1)"}
       \/ /\ fs \in FrameTrees
          /\ test_class = "p.FooTest"
          /\ stack_trace \in StackTraces
          /\ test_file_path = None
       \/ /\ fs \in {Tree({"src/main/java/p/Foo.java"}, None), Tree({}, None)}
          /\ test_class \in SuffixTestClasses
          /\ stack_trace = ""
          /\ test_file_path = None
       \/ /\ fs \in AtmTrees
          /\ test_class = AtmTestClass
          /\ stack_trace \in {"", AtmFrame,
                              "java.lang.AssertionError\n\t" \o AtmFrame
                                 \o "\n\tat org.junit.Assert.fail(Assert.java:88)"}
          /\ test_file_path \in {None, RelTestPath}
    /\ all_dependencies = None
    /\ search_patterns = None
    /\ related_files = None
    /\ test_method = None
    /\ source_info = None
    /\ dependencies = None
    /\ BugIdle
    /\ MainIdle
    /\ PromptIdle

FindRelatedSourceFiles ==
    /\ pc = "find"
    /\ \E so \in Orders(stack_classes(stack_trace)),
          do \in Orders(collect_dependencies(fs, stack_trace, test_file_path)),
          walk \in WalkOrders(fs, source_dirs(fs)) :
          LET result == find_related_source_files(fs, test_class, stack_trace,
                                                  test_file_path, so, do, walk)
          IN /\ all_dependencies' = result.all_dependencies
             /\ search_patterns' = result.search_patterns
             /\ related_files' = result.related_files
    /\ pc' = "found"
    /\ UNCHANGED <<fs, test_class, test_method, source_info, test_file_path, dependencies,
                   stack_trace, bugVars, promptVars, mainVars>>

RelatedNext == FindRelatedSourceFiles

SpecRelated == RelatedInit /\ [][RelatedNext]_vars

(***************************************************************************)
(* The summaries generate_prompt is run on: up to MaxFailures failure      *)
(* records over a tree of related source files.                            *)
(***************************************************************************)
MaxFailures == 2

PromptSources == {"if (count > 3) {", "total = count;", "", Unreadable}
PromptTrees ==
    {[p \in {"src/main/java/p/Foo.java"} |-> a] : a \in PromptSources}
      \cup {[p \in {"src/main/java/p/Foo.java", "src/main/java/p/FooService.java"} |->
                IF p = "src/main/java/p/Foo.java" THEN a ELSE "if (count > 3) {"] :
               a \in PromptSources}
      \cup {[p \in {} |-> ""]}
\* the records, as generate_failures_summary writes them
FailureRecords ==
    {[test_class |-> "p.FooTest", stack_trace |-> "", test_file_path |-> None,
      assertion_details |-> d] :
        d \in {[kind |-> "absent"], [kind |-> "null"],
               [kind |-> "dict", expected |-> "3", actual |-> "0"]}}
      \cup {[test_class |-> "q.FooServiceTest", stack_trace |-> "", test_file_path |-> None,
              assertion_details |-> [kind |-> "dict", expected |-> "3", actual |-> "0"]]}
RECURSIVE SummariesOf(_)
SummariesOf(n) == IF n = 0 THEN {<<>>}
                  ELSE LET shorter == SummariesOf(n - 1)
                       IN shorter \cup {Append(t, r) : t \in shorter, r \in FailureRecords}
Summaries == SummariesOf(MaxFailures)

PromptInit ==
    /\ pc = "prompt_failure"
    /\ fs \in PromptTrees
    /\ failures \in Summaries
    /\ failure_index = 1
    /\ file_index = 0
    /\ all_potential_bugs = <<>>
    /\ prompt = <<>>
    /\ related_files = <<>>
    /\ stack_trace = None
    /\ all_dependencies = None
    /\ search_patterns = None
    /\ LocIdle
    /\ DepIdle
    /\ BugIdle
    /\ MainIdle

\* lines 1023-1049: the head of the loop body, up to the related files
PromptFindRelated ==
    /\ pc = "prompt_failure"
    /\ failure_index <= Len(failures)
    /\ LET failure == failures[failure_index]
       IN \E so \in Orders(stack_classes(failure.stack_trace)),
             do \in Orders(collect_dependencies(fs, failure.stack_trace, failure.test_file_path)),
             walk \in WalkOrders(fs, source_dirs(fs)) :
             related_files' = find_related_source_files(fs, failure.test_class,
                                 failure.stack_trace, failure.test_file_path,
                                 so, do, walk).related_files
    /\ prompt' = Append(prompt, [part |-> "failure", index |-> failure_index])
    /\ file_index' = 1
    /\ all_potential_bugs' = fresh_potential_bugs(all_potential_bugs)
    /\ pc' = "prompt_file"
    /\ UNCHANGED <<fs, failures, failure_index, stack_trace, all_dependencies,
                   search_patterns, locVars, depVars, bugVars, mainVars>>

\* lines 1053-1061: one related file
PromptRelatedFile ==
    /\ pc = "prompt_file"
    /\ file_index <= Len(related_files)
    /\ LET related_file == related_files[file_index]
           text == load_source_code(fs, related_file)
           result == analyze_code_for_logic_bugs(text, failures[failure_index].assertion_details)
       IN IF text = ""
          THEN /\ file_index' = file_index + 1
               /\ pc' = "prompt_file"
               /\ UNCHANGED <<prompt, all_potential_bugs>>
          ELSE IF result.raised
          THEN /\ pc' = "raised"
               /\ prompt' = Append(prompt, [part |-> "source", file_path |-> related_file])
               /\ UNCHANGED <<file_index, all_potential_bugs>>
          ELSE /\ file_index' = file_index + 1
               /\ pc' = "prompt_file"
               /\ prompt' = Append(prompt, [part |-> "source", file_path |-> related_file])
               /\ all_potential_bugs' = ExtendBugs(all_potential_bugs, related_file, result.bugs)
    /\ UNCHANGED <<fs, failures, failure_index, relVars, locVars, depVars, bugVars, mainVars>>

\* lines 1063-1071: the end of the loop body
PromptEndFailure ==
    /\ pc = "prompt_file"
    /\ file_index > Len(related_files)
    /\ prompt' = IF all_potential_bugs = <<>> THEN prompt
                 ELSE Append(prompt, [part |-> "bugs", count |-> Len(all_potential_bugs)])
    /\ failure_index' = failure_index + 1
    /\ pc' = "prompt_failure"
    /\ UNCHANGED <<fs, failures, file_index, all_potential_bugs, relVars, locVars, depVars, bugVars, mainVars>>

\* lines 1080-1090: the prompt is returned
PromptReturn ==
    /\ pc = "prompt_failure"
    /\ failure_index > Len(failures)
    /\ pc' = "prompt_done"
    /\ UNCHANGED <<fs, promptVars, relVars, locVars, depVars, bugVars, mainVars>>

PromptNext == PromptFindRelated \/ PromptRelatedFile \/ PromptEndFailure \/ PromptReturn

SpecPrompt == PromptInit /\ [][PromptNext]_vars

\* Between the discovery of the related files and the loading of one of
\* them another process deletes a file still to be loaded or makes it
\* unreadable.
FileLost ==
    /\ pc = "prompt_file"
    /\ \E q \in DOMAIN fs \cap {Resolved(related_files[k]) : k \in file_index..Len(related_files)} :
          \/ fs' = [r \in DOMAIN fs \ {q} |-> fs[r]]
          \/ fs[q] # Unreadable /\ fs' = [fs EXCEPT ![q] = Unreadable]
    /\ UNCHANGED <<pc, promptVars, relVars, locVars, depVars, bugVars, mainVars>>

PromptEnvNext == PromptNext \/ FileLost

SpecPromptEnv == PromptInit /\ [][PromptEnvNext]_vars

(***************************************************************************)
(* FixSuggester.parse_ai_response.  A fix is a function from the names of  *)
(* its fields to their values; line_number is [is_int, value, text], the   *)
(* integer when int() accepts the text and the text itself otherwise.      *)
(***************************************************************************)
\* s.strip(c) for a one-character c
StripChar(s, c) ==
    LET a == RunEnd(s, 1, {c})
        b == RunStart(s, Len(s) + 1, {c})
    IN IF a > Len(s) THEN "" ELSE Mid(s, a, b - 1)
set_field(fix, name, value) ==
    [x \in DOMAIN fix \cup {name} |-> IF x = name THEN value ELSE fix[x]]

\* the section a line opens: "" when it is no section heading
section_of(line) ==
    IF Contains(line, "**ROOT CAUSE") \/ Contains(line, "ROOT CAUSE:") THEN "root_cause"
    ELSE IF Contains(line, "**EXACT FIXES") \/ Contains(line, "EXACT FIXES:") THEN "fixes"
    ELSE IF Contains(line, "**VERIFICATION") \/ Contains(line, "VERIFICATION:") THEN "verification"
    ELSE IF Contains(line, "**ADDITIONAL NOTES") \/ Contains(line, "ADDITIONAL NOTES:") THEN "notes"
    ELSE ""

\* the text after a keyword, backticks around it removed
keyword_text(line_stripped, keyword) == Strip(Replace(line_stripped, keyword, ""))
\* the grave accent that fences code; string literals here cannot hold one,
\* so the apostrophe stands for it in every reply of the model
Fence == "'"
code_text(line_stripped, keyword) ==
    IF StartsWith(keyword_text(line_stripped, keyword), Fence)
    THEN StripChar(keyword_text(line_stripped, keyword), Fence)
    ELSE keyword_text(line_stripped, keyword)
line_number_of(text) ==
    IF ParseInt(text).ok THEN [is_int |-> TRUE, value |-> ParseInt(text).value, text |-> ""]
    ELSE [is_int |-> FALSE, value |-> 0, text |-> text]

\* the FILE/LINE/REPLACE/WITH step on the parser state st
fix_step(st, line_stripped) ==
    IF StartsWith(line_stripped, "FILE:")
    THEN [st EXCEPT !.fixes = IF DOMAIN st.current_fix # {} THEN Append(@, st.current_fix) ELSE @,
                    !.current_fix = set_field(<<>>, "file_path",
                                              keyword_text(line_stripped, "FILE:"))]
    ELSE IF DOMAIN st.current_fix = {} THEN st
    ELSE IF StartsWith(line_stripped, "LINE:")
    THEN [st EXCEPT !.current_fix = set_field(@, "line_number",
                                      line_number_of(keyword_text(line_stripped, "LINE:")))]
    ELSE IF StartsWith(line_stripped, "REPLACE:")
    THEN [st EXCEPT !.current_fix = set_field(@, "current_code",
                                              code_text(line_stripped, "REPLACE:"))]
    ELSE IF StartsWith(line_stripped, "WITH:")
    THEN [st EXCEPT !.current_fix = set_field(@, "fixed_code",
                                              code_text(line_stripped, "WITH:"))]
    ELSE st

\* the text a section collects from a line
captured(st, line_stripped) ==
    IF line_stripped = "" THEN st
    ELSE IF st.section = "root_cause"
    THEN [st EXCEPT !.root_cause = @ \o line_stripped \o " "]
    ELSE IF st.section = "verification"
    THEN [st EXCEPT !.verification = @ \o line_stripped \o " "]
    ELSE IF st.section = "notes"
    THEN [st EXCEPT !.additional_notes = @ \o line_stripped \o " "]
    ELSE st

\* the loop over the lines of the reply, from the k-th on
RECURSIVE parse_lines(_, _, _)
parse_lines(lines, k, st) ==
    IF k > Len(lines) THEN st
    ELSE IF section_of(lines[k]) # ""
    THEN parse_lines(lines, k + 1, [st EXCEPT !.section = section_of(lines[k])])
    ELSE parse_lines(lines, k + 1, fix_step(captured(st, Strip(lines[k])), Strip(lines[k])))

\* the fields every fix gets at the end
completed(fix, i, st, test_info) ==
    LET named == IF i <= Len(test_info)
                 THEN set_field(set_field(fix, "test_class", test_info[i].test_class),
                                "test_method", test_info[i].test_method)
                 ELSE fix
        caused == set_field(named, "root_cause",
                            IF st.root_cause # "" THEN Strip(st.root_cause)
                            ELSE "See AI response for details")
        verified == set_field(caused, "verification",
                              IF st.verification # "" THEN Strip(st.verification)
                              ELSE "Run the test to verify the fix")
    IN IF st.additional_notes # ""
       THEN set_field(verified, "additional_notes", Strip(st.additional_notes))
       ELSE verified

parse_ai_response(reply, failure_data) ==
    LET st == parse_lines(Split(reply, "\n"), 1,
                          [fixes |-> <<>>, current_fix |-> <<>>, root_cause |-> "",
                           verification |-> "", additional_notes |-> "", section |-> ""])
        fixes == IF DOMAIN st.current_fix # {} THEN Append(st.fixes, st.current_fix)
                 ELSE st.fixes
    IN [total_failures |-> failure_data.summary.total_failures,
        fixes |-> [i \in 1..Len(fixes) |->
                     completed(fixes[i], i, st, summary_failures(failure_data))],
        raw_ai_response |-> reply]

(***************************************************************************)
(* main: run_analysis over the report files of the reports directory, then *)
(* suggest_fixes.  The output directory exists; the environment decides    *)
(* whether the API key is set and whether the two requests succeed.        *)
(***************************************************************************)
MaxReports == 2

Passed == [classname |-> "p.FooTest", name |-> "passes", failure |-> NoElement, error |-> NoElement]
AssertionText == "java.lang.AssertionError: expected: <3> but was: <0>\n\tat p.Foo.m(Foo.java:1)"
ErrorText == "java.lang.IllegalStateException: boom\n\tat p.Foo.m(Foo.java:1)"
Failed(message, text) ==
    [classname |-> "p.FooTest", name |-> "t",
     failure |-> [present |-> TRUE, message |-> message, text |-> text], error |-> NoElement]
Errored(message, text) ==
    [classname |-> "p.FooTest", name |-> "t", failure |-> NoElement,
     error |-> [present |-> TRUE, message |-> message, text |-> text]]
FailedAndErrored ==
    [classname |-> "p.FooTest", name |-> "t",
     failure |-> [present |-> TRUE, message |-> "expected: <3> but was: <0>", text |-> AssertionText],
     error |-> [present |-> TRUE, message |-> "boom", text |-> ErrorText]]
Report(name, tests, failed, errors, testcases) ==
    [wellformed |-> TRUE, name |-> name, tests |-> tests, failures |-> failed,
     errors |-> errors, skipped |-> "0", testcases |-> testcases]
\* the report files that vary freely, and the ones met one at a time
CommonReports ==
    {Report("p.PassTest", "1", "0", "0", <<Passed>>),
     Report("p.FooTest", "2", "1", "0",
            <<Passed, Failed("expected: <3> but was: <0>", AssertionText)>>),
     Report("p.ErrTest", "1", "0", "1", <<Errored("", ErrorText)>>),
     [Report("p.Broken", "1", "0", "0", <<>>) EXCEPT !.wellformed = FALSE]}
RareReports ==
    {Report("p.BothTest", "1", "1", "1", <<FailedAndErrored>>),
     Report("p.BadCount", "x", "0", "0", <<Passed>>),
     Report("p.BlankTest", "2", "1", "0", <<Failed("", AssertionText), Failed("", " \n ")>>),
     Report("p.MixedTest", "3", "1", "1",
            <<Failed("", AssertionText), Passed, Errored("boom", ErrorText)>>),
     Report("p.EmptyTest", "0", "0", "0", <<>>)}
RECURSIVE ReportLists(_)
ReportLists(n) == IF n = 0 THEN {<<>>}
                  ELSE LET shorter == ReportLists(n - 1)
                       IN shorter \cup {Append(t, r) : t \in shorter, r \in CommonReports}
MainTree ==
    [p \in {"src/test/java/p/FooTest.java", "src/main/java/p/Foo.java"} |->
        IF p = "src/main/java/p/Foo.java" THEN "if (count > 3) {"
        ELSE "class FooTest {\n  void t() {\n  }\n}"]
Modes == {"", "analyze", "suggest"}

\* the default output_file of generate_failures_summary and of suggest_fixes
source_tree_file(name) == "src/main/java/p/" \o name
output_file(name) == "output/" \o name
\* open(path, 'w') and json.dump: the file is created or replaced, every
\* other file is left as it is; the payload itself is held in summary
write_file(f, path, text) ==
    [q \in DOMAIN f \cup {path} |-> IF q = path THEN text ELSE f[q]]

MainInit ==
    /\ pc = "main"
    /\ fs = MainTree
    /\ \/ argv = "" /\ reports \in ReportLists(MaxReports)
       \/ /\ argv = ""
          /\ \E r \in RareReports, c \in CommonReports :
                reports \in {<<r>>, <<r, c>>, <<c, r>>}
       \/ /\ argv \in Modes \ {""}
          /\ \E r \in CommonReports : reports \in {<<>>, <<r>>}
    /\ report_index = 1
    /\ test_suites = <<>>
    /\ total_tests = 0
    /\ total_failures = 0
    /\ total_errors = 0
    /\ total_skipped = 0
    /\ summary = None
    /\ events = <<>>
    /\ ReplyIdle
    /\ failures = <<>>
    /\ failure_index = 1
    /\ file_index = 0
    /\ all_potential_bugs = <<>>
    /\ prompt = <<>>
    /\ related_files = <<>>
    /\ stack_trace = None
    /\ all_dependencies = None
    /\ search_patterns = None
    /\ LocIdle
    /\ DepIdle
    /\ BugIdle

\* the MavenTestAnalyzer as a record
analyzer ==
    [test_suites |-> test_suites, total_tests |-> total_tests,
     total_failures |-> total_failures, total_errors |-> total_errors,
     total_skipped |-> total_skipped]

\* main calls run_analysis whatever the arguments are; without a reports
\* directory run_analysis returns False
MainRunAnalysis ==
    /\ pc = "main"
    /\ events' = Append(events, "run_analysis")
    /\ \E exists \in BOOLEAN :
          /\ ~exists => reports = <<>>
          /\ pc' = IF exists THEN "parse" ELSE "done"
    /\ UNCHANGED <<fs, argv, reports, report_index, test_suites, totalVars, summary, replyVars,
                   promptVars, relVars, locVars, depVars, bugVars>>

\* one turn of the loop of parse_xml_reports
ParseReport ==
    /\ pc = "parse"
    /\ report_index <= Len(reports)
    /\ \E r \in {try_parse_report(analyzer, report_index, reports[report_index])} :
          /\ pc' = IF r.raised THEN "raised" ELSE "parse"
          /\ test_suites' = r.analyzer.test_suites
          /\ total_tests' = r.analyzer.total_tests
          /\ total_failures' = r.analyzer.total_failures
          /\ total_errors' = r.analyzer.total_errors
          /\ total_skipped' = r.analyzer.total_skipped
    /\ report_index' = report_index + 1
    /\ UNCHANGED <<fs, argv, reports, summary, events, replyVars,
                   promptVars, relVars, locVars, depVars, bugVars>>

\* the rest of run_analysis and the branch of main on its result
FinishAnalysis ==
    /\ pc = "parse"
    /\ report_index > Len(reports)
    /\ IF total_tests = 0
       THEN /\ pc' = "done"
            /\ UNCHANGED <<fs, summary, events>>
       ELSE /\ summary' = failures_summary(fs, analyzer)
            /\ fs' = write_file(fs, output_file("error-summary.json"), "{}")
            /\ events' = Append(events, "write_summary")
            /\ pc' = IF total_failures > 0 \/ total_errors > 0 THEN "suggest" ELSE "done"
    /\ UNCHANGED <<argv, reports, report_index, test_suites, totalVars, replyVars,
                   promptVars, relVars, locVars, depVars, bugVars>>

\* the test of suggest_fixes on the loaded summary
always_goes_on(failure_data) == FALSE
nothing_to_analyze(failure_data) == failure_data.summary.total_failures = 0

\* FixSuggester() and suggest_fixes up to the test on total_failures
SuggestStart ==
    /\ pc = "suggest"
    /\ \E api_key \in BOOLEAN :
          IF ~api_key
          THEN pc' = "exited" /\ UNCHANGED events
          ELSE /\ events' = Append(events, "suggest_fixes")
               /\ pc' = IF nothing_to_analyze(summary) THEN "done" ELSE "token"
    /\ UNCHANGED <<fs, argv, reports, report_index, test_suites, totalVars, summary, replyVars,
                   promptVars, relVars, locVars, depVars, bugVars>>

\* get_access_token, and the entry of generate_prompt
GetAccessToken ==
    /\ pc = "token"
    /\ events' = Append(events, "get_access_token")
    /\ \E granted \in BOOLEAN :
          IF granted
          THEN pc' = "prompt_failure" /\ failures' = summary_failures(summary)
          ELSE pc' = "exited" /\ UNCHANGED failures
    /\ UNCHANGED <<fs, argv, reports, report_index, test_suites, totalVars, summary, replyVars,
                   failure_index, file_index, all_potential_bugs, prompt,
                   relVars, locVars, depVars, bugVars>>

\* the replies the inference endpoint gives in the whole workflow
MainReplies == {"FILE: src/main/java/p/Foo.java\nLINE: 1\nWITH: if (count >= 3) {",
                "I cannot tell."}

\* call_watsonx_ai, parse_ai_response and the writing of the suggested fixes
CallWatsonx ==
    /\ pc = "prompt_done"
    /\ argv # None
    /\ \E answered \in BOOLEAN :
          IF answered
          THEN /\ pc' = "done"
               /\ events' = events \o <<"call_watsonx_ai", "write_fixes">>
               /\ \E reply \in MainReplies :
                     /\ ai_response' = reply
                     /\ structured_fixes' = parse_ai_response(reply, summary)
               /\ fs' = write_file(fs, output_file("suggested-fixes.json"), "{}")
          ELSE /\ pc' = "exited"
               /\ events' = Append(events, "call_watsonx_ai")
               /\ UNCHANGED <<fs, replyVars>>
    /\ UNCHANGED <<argv, reports, report_index, test_suites, totalVars, summary,
                   promptVars, relVars, locVars, depVars, bugVars>>

MainNext ==
    \/ MainRunAnalysis
    \/ ParseReport
    \/ FinishAnalysis
    \/ SuggestStart
    \/ GetAccessToken
    \/ PromptFindRelated
    \/ PromptRelatedFile
    \/ PromptEndFailure
    \/ PromptReturn
    \/ CallWatsonx

SpecMain == MainInit /\ [][MainNext]_vars

(***************************************************************************)
(* parse_ai_response on its own: replies of up to MaxReplyLines lines      *)
(* drawn from ReplyLinePool, and a summary with one failure.               *)
(***************************************************************************)
MaxReplyLines == 3

ReplyLinePool ==
    {"FILE: a.java", "  FILE: b.java", "LINE: 12", "LINE: x", "REPLACE: 'old'",
     "WITH: // ROOT CAUSE: y", "WITH: new", "**ROOT CAUSE:**", "text"}
RECURSIVE ReplyLineLists(_)
ReplyLineLists(n) ==
    IF n = 0 THEN {<<>>}
    ELSE LET shorter == ReplyLineLists(n - 1)
         IN shorter \cup {Append(t, line) : t \in shorter, line \in ReplyLinePool}
Replies == {Join(lines, "\n") : lines \in ReplyLineLists(MaxReplyLines)}

ReplyFailure ==
    [test_class |-> "p.FooTest", test_method |-> "t", stack_trace |-> "",
     test_source |-> [path |-> ""], assertion_details |-> None,
     failure_category |-> "unknown"]
ReplyData ==
    [summary |-> [total_failures |-> 1], suites |-> <<[failures |-> <<ReplyFailure>>]>>]

ReplyInit ==
    /\ pc = "reply"
    /\ ai_response \in Replies
    /\ summary = ReplyData
    /\ structured_fixes = None
    /\ fs = [p \in {} |-> ""]
    /\ argv = None /\ reports = None /\ report_index = None
    /\ test_suites = None /\ total_tests = None /\ total_failures = None
    /\ total_errors = None /\ total_skipped = None /\ events = None
    /\ LocIdle
    /\ DepIdle
    /\ BugIdle
    /\ RelIdle
    /\ PromptIdle

ParseAiResponse ==
    /\ pc = "reply"
    /\ structured_fixes' = parse_ai_response(ai_response, summary)
    /\ pc' = "parsed"
    /\ UNCHANGED <<fs, ai_response, argv, reports, report_index, test_suites, totalVars,
                   summary, events, promptVars, relVars, locVars, depVars, bugVars>>

ReplyNext == ParseAiResponse

SpecReply == ReplyInit /\ [][ReplyNext]_vars

(***************************************************************************)
(* Properties of _get_test_source_info.                                    *)
(***************************************************************************)
Located == pc = "located"
Found == Located /\ source_info.found

\* the candidate roots in the order the claims give them
ClaimRoots == <<"bank/src/test/java/", "src/test/java/", "test/">>
ClaimPath(k) == ClaimRoots[k] \o ReplaceChar(test_class, ".", "/") \o ".java"
\* the roots that contain the class file
Holders == {k \in 1..3 : ClaimPath(k) \in DOMAIN fs}
\* the roots whose class file can be read and holds the method signature
HoldsMethod(k) ==
    /\ k \in Holders
    /\ fs[ClaimPath(k)] # Unreadable
    /\ MethodSearch(fs[ClaimPath(k)], test_method) # 0

\* C1 as stated: a found result lies under the first root, in the fixed
\* order, that contains the class file.
C1_FirstContainingRoot ==
    Found => source_info.path = ClaimPath(SetMin(Holders))

\* C1 amended: a found result lies under the first root, in the fixed order,
\* whose class file is readable and holds the method signature; roots whose
\* file lacks the method (or cannot be read) are passed over, and the result
\* is not-found exactly when no root holds the method.
C1_FirstRootWithMethod ==
    Located =>
      /\ source_info.found <=> (\E k \in 1..3 : HoldsMethod(k))
      /\ source_info.found =>
           \E k \in 1..3 : /\ source_info.path = ClaimPath(k)
                           /\ HoldsMethod(k)
                           /\ \A j \in 1..(k - 1) : ~HoldsMethod(j)

\* an earlier root contains the file without the method and the result
\* comes from a later root
C1_Witness ==
    /\ Found
    /\ source_info.path # ClaimPath(SetMin(Holders))
    /\ \E k \in 2..3 : source_info.path = ClaimPath(k) /\ HoldsMethod(k)

\* the 1-based line on which the match of the signature pattern starts, and
\* the number of lines, of the file the result comes from
MatchLine ==
    LET content == fs[source_info.path]
    IN 1 + CountChar(Mid(content, 1, MethodSearch(content, test_method) - 1), "\n")
FileLines == Len(Split(fs[source_info.path], "\n"))

\* C2 as stated: the window runs from max(1, L-5) to min(N, L+30).
C2_WindowThirtyAfter ==
    Found => /\ source_info.context_start_line = Max2(1, MatchLine - 5)
             /\ source_info.context_end_line = Min2(FileLines, MatchLine + 30)

\* C2 amended: with L the line on which the match starts, the window runs
\* from max(1, L-5) to min(N, L+29): the signature line and 29 lines after.
C2_WindowTwentyNineAfter ==
    Found => /\ source_info.context_start_line = Max2(1, MatchLine - 5)
             /\ source_info.context_end_line = Min2(FileLines, MatchLine + 29)

\* a public method on line 20 of a file of at least 50 lines: 15 and 49
C2_Witness ==
    /\ Found
    /\ source_info.method_signature = "public void t() {"
    /\ MatchLine = 20
    /\ FileLines >= 50
    /\ source_info.context_start_line = 15
    /\ source_info.context_end_line = 49

(***************************************************************************)
(* Properties of extract_test_dependencies.                                *)
(***************************************************************************)
Extracted == pc = "extracted"
Readable == test_file_path \in DOMAIN fs /\ fs[test_file_path] # Unreadable
Text == fs[test_file_path]

ExclusionKeywords == {"test", "junit", "mockito", "spring.test", "hamcrest", "assertj"}
HasKeyword(n) == \E k \in ExclusionKeywords : Contains(Lower(n), k)
Dotted(n) == Contains(n, ".")

\* C8 as stated: an imported name that contains an exclusion keyword,
\* whatever the case, is not in the returned set, whatever else the text
\* declares.
C8_KeywordNamesAbsent ==
    Extracted /\ Readable =>
      \A n \in ImportStatements(Text) : HasKeyword(n) => n \notin dependencies

\* C8 amended: the import rules never add an imported name that contains an
\* exclusion keyword; such a name is in the returned set only when a field,
\* configuration or receiver rule extracts the same string, which these
\* unfiltered rules do for undotted names only; a package-qualified imported
\* name that contains a keyword is never in the set.
C8_KeywordImportsNotAdded ==
    Extracted /\ Readable =>
      \A n \in ImportStatements(Text) :
         HasKeyword(n) =>
           /\ Dotted(n) => n \notin dependencies
           /\ n \in dependencies =>
                n \in annotated_dependencies(Text) \cup field_only_dependencies(Text)
                        \cup context_dependencies(Text) \cup receiver_dependencies(Text)

\* an import of the shape the rules accept is dropped for its keyword while
\* the text yields other names
C8_Witness ==
    /\ Extracted /\ Readable
    /\ dependencies # {}
    /\ \E n \in ImportStatements(Text) :
          HasKeyword(n) /\ Dotted(n) /\ ImportPatternMatches(n) /\ n \notin dependencies

\* C9 as stated: no name the injection-marked field rule adds contains '<'
\* or '>', for nested generic parameters too.
C9_GenericsStripped ==
    Extracted /\ Readable =>
      \A d \in dependencies :
         d \in annotated_dependencies(Text) => ~Contains(d, "<") /\ ~Contains(d, ">")

\* none of the five pattern groups matches in the text
NoPatternMatches(s) ==
    /\ \A n \in ImportStatements(s) : ~ImportPatternMatches(n)
    /\ AnnotatedFieldTypes(s) = {}
    /\ \A i \in 1..Len(s) : FieldOnlyAt(s, i) = ""
    /\ \A i \in 1..Len(s) : ContextClassesAt(s, i) = ""
    /\ \A r \in Receivers(s) : FieldDeclType(s, r) = ""

\* C10: a readable text in which no pattern group matches yields the empty
\* collection (the extractor returns; it has no raising path).
C10_NoPatternNoDependency ==
    Extracted /\ Readable /\ NoPatternMatches(Text) => dependencies = {}

\* a text with an import and a method call, neither of a matching shape
C10_Witness ==
    /\ Extracted /\ Readable
    /\ ImportStatements(Text) # {}
    /\ Receivers(Text) # {}
    /\ NoPatternMatches(Text)
    /\ dependencies = {}

(***************************************************************************)
(* Properties of analyze_code_for_logic_bugs.                              *)
(***************************************************************************)
Analyzed == pc = "analyzed"
Returned == Analyzed /\ ~analysis.raised
SourceLines == Split(source_code, "\n")
\* the off-by-one annotations given for line i
OffByOneOf(i) ==
    {k \in 1..Len(analysis.bugs) :
        analysis.bugs[k].line_number = i /\ analysis.bugs[k].bug_type = "off_by_one_error"}

\* lines with a single 'if (count > N)' or 'if (count >= N)' comparison
SingleComparisons == { [text |-> "if (count > 3) {", n |-> 3],
                       [text |-> "if (count >= 3) {", n |-> 3],
                       [text |-> "if (count > 2) {", n |-> 2],
                       [text |-> "if (itemCount > 10) {", n |-> 10] }
\* the expected texts that are integers above 0, with their values
PositiveExpected == { [text |-> "3", n |-> 3], [text |-> " 2 ", n |-> 2],
                      [text |-> "10", n |-> 10], [text |-> "1", n |-> 1] }

\* C5: with actual "0" and a positive expected count E, each line holding a
\* single comparison 'if (count > N)' or 'if (count >= N)' with N >= E gets
\* exactly one off-by-one annotation, of confidence high, with the line's
\* 1-based index (expected "3" and 'if (count > 3) {' in particular).
C5_OneOffByOnePerComparison ==
    Analyzed /\ failure_details.kind = "dict" /\ failure_details.actual = "0" =>
      \A e \in PositiveExpected : \A c \in SingleComparisons : \A i \in 1..Len(SourceLines) :
         (failure_details.expected = e.text /\ Strip(SourceLines[i]) = c.text /\ c.n >= e.n) =>
            /\ ~analysis.raised
            /\ Cardinality(OffByOneOf(i)) = 1
            /\ \A k \in OffByOneOf(i) : /\ analysis.bugs[k].confidence = "high"
                                        /\ analysis.bugs[k].line_content = c.text

\* expected "3", actual "0", 'if (count > 3) {' on the second line: one
\* off-by-one annotation, for line 2
C5_Witness ==
    /\ Returned
    /\ failure_details = [kind |-> "dict", expected |-> "3", actual |-> "0"]
    /\ Len(SourceLines) = 2
    /\ SourceLines[2] = "if (count > 3) {"
    /\ Cardinality(OffByOneOf(2)) = 1
    /\ \E k \in OffByOneOf(2) : analysis.bugs[k].confidence = "high"

\* C6: a non-empty result needs actual "0" and an expected text that is an
\* integer above 0.
C6_ActivationGuard ==
    Returned /\ analysis.bugs # <<>> =>
      /\ failure_details.kind = "dict"
      /\ failure_details.actual = "0"
      /\ \E e \in PositiveExpected : failure_details.expected = e.text

\* expected "0" and actual "0" on a source with a flagged comparison: nothing
C6_Witness ==
    /\ Returned
    /\ failure_details = [kind |-> "dict", expected |-> "0", actual |-> "0"]
    /\ Contains(source_code, "if (count > 3) {")
    /\ analysis.bugs = <<>>

(***************************************************************************)
(* Properties of find_related_source_files.                                *)
(***************************************************************************)
RelatedFound == pc = "found"
Count(seq, x) == Cardinality({i \in 1..Len(seq) : seq[i] = x})
\* what each of the three collection steps meets, whatever the order
RelDirs == source_dirs(fs)
SomeWalk == CHOOSE o \in WalkOrders(fs, RelDirs) : TRUE
SomeDependencyOrder == CHOOSE o \in Orders(all_dependencies) : TRUE
WalkHitList == walk_hits(RelDirs, search_patterns, SomeWalk)
ProbeHitList == probe_hits(fs, RelDirs, SomeDependencyOrder)
PackageHitList == package_hits(fs, RelDirs, test_class, SomeWalk)

\* C3: the list returned by find_related_source_files has pairwise distinct
\* entries.
C3_NoDuplicatePaths ==
    RelatedFound =>
      \A i, j \in 1..Len(related_files) : i # j => related_files[i] # related_files[j]

\* a file met more than once by the walk, met by the probe and met by the
\* listing of a guessed package directory, and listed once
C3_Witness ==
    /\ RelatedFound
    /\ \E q \in DOMAIN fs : /\ Count(WalkHitList, q) >= 2
                            /\ InSeq(ProbeHitList, q)
                            /\ InSeq(PackageHitList, q)
                            /\ Count(related_files, q) = 1

AtmCase ==
    /\ RelatedFound
    /\ test_class = AtmTestClass
    /\ \E l \in FrameLines(stack_trace) : Strip(l) = AtmFrame
AtmPaths == {PathJoin(RelDirs[d], AtmFile) : d \in 1..Len(RelDirs)} \cap DOMAIN fs

\* C4: for the test class AtmLocationSearchTest with the stack line of
\* AtmLocationService.search, the simple name AtmLocationService is a
\* search pattern, the fully-qualified name is a dependency, and the file
\* com/example/bank/service/AtmLocationService.java under a discovered root
\* is met by the walk for that pattern and by the package-path probe and is
\* listed exactly once.
C4_AtmLocationServiceOnce ==
    AtmCase =>
      /\ "AtmLocationService" \in stack_classes(stack_trace)
      /\ InSeq(search_patterns, "AtmLocationService")
      /\ AtmDependency \in stack_dependencies(stack_trace)
      /\ AtmDependency \in all_dependencies
      /\ \A q \in AtmPaths :
            /\ \E d \in 1..Len(RelDirs) :
                  InSeq(WalkMatches(RelDirs[d], "AtmLocationService", SomeWalk), q)
            /\ InSeq(ProbeHitList, q)
            /\ Count(related_files, q) = 1

C4_Witness ==
    /\ AtmCase
    /\ "src/main/java/" \o AtmFile \in AtmPaths
    /\ InSeq(WalkHitList, "src/main/java/" \o AtmFile)
    /\ InSeq(ProbeHitList, "src/main/java/" \o AtmFile)
    /\ Count(related_files, "src/main/java/" \o AtmFile) = 1


HasTestSuffix(name) == \E k \in 1..Len(test_suffixes) : EndsWith(name, test_suffixes[k])
TestFileGiven == test_file_path # None
TestFileLost == test_file_path \notin DOMAIN fs \/ fs[test_file_path] = Unreadable
\* the patterns that come after the five built from the test class name
ExtraPatterns == {search_patterns[k] : k \in (Len(pattern_suffixes) + 1)..Len(search_patterns)}

\* C11: for a test file that does not exist or cannot be read the extractor
\* gives the empty collection, and find_related_source_files goes on with
\* the names derived from the stack trace alone.
C11_LostTestFileStackNamesOnly ==
    RelatedFound /\ TestFileGiven /\ TestFileLost =>
      /\ extract_test_dependencies(fs, test_file_path) = {}
      /\ all_dependencies = stack_dependencies(stack_trace)
      /\ ExtraPatterns = stack_classes(stack_trace)
                           \cup {DependencyPattern(d) : d \in stack_dependencies(stack_trace)}

\* an unreadable test file, and a result built from a stack frame
C11_Witness ==
    /\ RelatedFound /\ TestFileGiven
    /\ test_file_path \in DOMAIN fs
    /\ fs[test_file_path] = Unreadable
    /\ all_dependencies = {"p.Foo"}
    /\ related_files # <<>>

\* C12: every path of the result exists in the tree and was met by the
\* walk, by the existence check of the probe or by a directory listing.
C12_ListedPathsExist ==
    RelatedFound =>
      \A i \in 1..Len(related_files) :
         /\ PathExists(fs, related_files[i])
         /\ \/ InSeq(WalkHitList, related_files[i])
            \/ InSeq(ProbeHitList, related_files[i])
            \/ InSeq(PackageHitList, related_files[i])

\* the potential files of the dotted dependencies
ProbeGuesses ==
    {PathJoin(RelDirs[d], package_path(dep)) :
        d \in 1..Len(RelDirs), dep \in {x \in all_dependencies : Contains(x, ".")}}

\* a guessed potential file that does not exist is left out of a non-empty
\* result
C12_Witness ==
    /\ RelatedFound
    /\ related_files # <<>>
    /\ \E g \in ProbeGuesses : ~PathExists(fs, g) /\ ~InSeq(related_files, g)

\* the collection step that first meets a path
FirstStep(q) == IF InSeq(WalkHitList, q) THEN 1
                ELSE IF InSeq(ProbeHitList, q) THEN 2
                ELSE 3

\* C13: the result lists the paths first met by the walk, then those first
\* met by the probe, then those first met by a package listing.
C13_StepOrder ==
    RelatedFound =>
      \A i, j \in 1..Len(related_files) :
         i < j => FirstStep(related_files[i]) <= FirstStep(related_files[j])

\* a result with a path of each step, one of them met again by a later step
C13_Witness ==
    /\ RelatedFound
    /\ \E i, j, k \in 1..Len(related_files) :
          /\ FirstStep(related_files[i]) = 1
          /\ FirstStep(related_files[j]) = 2
          /\ FirstStep(related_files[k]) = 3
          /\ InSeq(PackageHitList, related_files[j])

\* C14: no class name taken from a stack line ends in a test suffix (Test,
\* Tests, IT, Integration), neither the simple names that become search
\* patterns nor the qualified names that become dependencies.
C14_StackTestClassesExcluded ==
    RelatedFound =>
      /\ \A c \in stack_classes(stack_trace) : ~HasTestSuffix(c) /\ c \in ExtraPatterns
      /\ \A d \in stack_dependencies(stack_trace) : ~HasTestSuffix(d) /\ d \in all_dependencies

(***************************************************************************)
(* Properties of generate_prompt.                                          *)
(***************************************************************************)
\* C7: for a failure record whose assertion_details is absent or null the
\* annotator does not raise, so prompt assembly is not aborted at it.
C7_NoValuesNoRaise ==
    pc \in {"prompt_file", "raised"} /\ failure_index <= Len(failures)
      /\ failures[failure_index].assertion_details.kind \in {"absent", "null"}
      => pc # "raised"

\* the file cannot be loaded: it is gone or cannot be read
Lost(q) == Resolved(q) \notin DOMAIN fs \/ fs[Resolved(q)] = Unreadable
SourceParts == {prompt[k].file_path : k \in {n \in 1..Len(prompt) : prompt[n].part = "source"}}

\* C17: the step of generate_prompt for a related file that is gone or
\* unreadable loads the empty string, adds no source text and no annotation,
\* does not raise and moves to the next candidate.
C17_LostFileSkipped ==
    [][PromptRelatedFile /\ Lost(related_files[file_index]) =>
         /\ load_source_code(fs, related_files[file_index]) = ""
         /\ prompt' = prompt
         /\ all_potential_bugs' = all_potential_bugs
         /\ file_index' = file_index + 1
         /\ pc' = "prompt_file"]_vars

\* the first of two related files was lost after discovery and was passed
\* over, the second one was loaded into the prompt
C17_Witness ==
    /\ pc = "prompt_file"
    /\ Len(failures) = 1
    /\ Len(related_files) = 2
    /\ file_index = 3
    /\ Resolved(related_files[1]) \notin DOMAIN fs
    /\ SourceParts = {related_files[2]}

\* the lists find_related_source_files can return for a record, taken alone
ResultsAlone(failure) ==
    {find_related_source_files(fs, failure.test_class, failure.stack_trace,
                               failure.test_file_path, so, do, walk).related_files :
        so \in Orders(stack_classes(failure.stack_trace)),
        do \in Orders(collect_dependencies(fs, failure.stack_trace, failure.test_file_path)),
        walk \in WalkOrders(fs, source_dirs(fs))}
\* the annotations of a record, taken alone, over the first n related files
RECURSIVE BugsAlone(_, _)
BugsAlone(failure, n) ==
    IF n = 0 THEN <<>>
    ELSE LET text == load_source_code(fs, related_files[n])
         IN ExtendBugs(BugsAlone(failure, n - 1), related_files[n],
                       IF text = "" THEN <<>>
                       ELSE analyze_code_for_logic_bugs(text, failure.assertion_details).bugs)

\* C20: with the filesystem fixed, the related files and the annotations
\* held for the record being processed are those the record gives when it
\* is processed alone, whatever records came before it.
C20_RecordsIndependent ==
    pc = "prompt_file" =>
      /\ related_files \in ResultsAlone(failures[failure_index])
      /\ all_potential_bugs =
           BugsAlone(failures[failure_index], Min2(file_index - 1, Len(related_files)))

\* the second record gets a path and an annotation the first record got
C20_Witness ==
    /\ pc = "prompt_file"
    /\ failure_index = 2
    /\ file_index > Len(related_files)
    /\ all_potential_bugs # <<>>
    /\ \E k \in 1..Len(prompt) : prompt[k].part = "bugs"
    /\ \E q \in SourceParts : InSeq(related_files, q)

(***************************************************************************)
(* Properties of the analyzer and of main.                                 *)
(***************************************************************************)
\* generate_failures_summary has written the summary file
SummaryWritten == InSeq(events, "write_summary")
\* the turns of the parsing loop that are over
Turned == IF pc = "main" THEN {} ELSE 1..(report_index - 1)
\* the k-th report file can be parsed
Parseable(k) ==
    ~parse_single_xml_report([test_suites |-> <<>>, total_tests |-> 0, total_failures |-> 0,
                              total_errors |-> 0, total_skipped |-> 0], k, reports[k]).raised
\* the report files behind the recorded suites, in the order of recording
RecordedFiles == [n \in 1..Len(test_suites) |-> test_suites[n].report_file]
RECURSIVE ParseableUpTo(_)
ParseableUpTo(k) ==
    IF k = 0 THEN <<>>
    ELSE ParseableUpTo(k - 1) \o (IF Parseable(k) THEN <<k>> ELSE <<>>)

\* C18: a report file that cannot be parsed is skipped as a unit: the
\* parsing loop does not raise, the recorded suites are those of the
\* parseable report files met so far, in order, and none is recorded for a
\* report file that cannot be parsed.
C18_UnparsableReportSkipped ==
    /\ pc = "raised" => SummaryWritten
    /\ pc # "main" => RecordedFiles = ParseableUpTo(report_index - 1)

\* a report file that cannot be parsed came first, and the one after it is
\* recorded
C18_Witness ==
    /\ pc = "parse"
    /\ report_index > Len(reports)
    /\ \E j, k \in Turned : j < k /\ ~Parseable(j) /\ Parseable(k)
    /\ \E n \in 1..Len(test_suites) :
          test_suites[n].report_file = 2 /\ test_suites[n].name = reports[2].name

\* the test-case elements of a report that carry a failure or an error child
FailingTestCases(report) ==
    {k \in 1..Len(report.testcases) :
        report.testcases[k].failure.present \/ report.testcases[k].error.present}

\* C19: the number of records of a recorded suite equals the number of
\* test-case elements of its report that carry a failure or an error child,
\* one record for each of them.
C19_OneRecordPerFailingTestCase ==
    \A n \in 1..Len(test_suites) :
        Len(test_suites[n].test_failures) =
            Cardinality(FailingTestCases(reports[test_suites[n].report_file]))

\* the number of context bundles begun for the k-th record of the summary
Bundles(k) ==
    Cardinality({n \in 1..Len(prompt) : prompt[n].part = "failure" /\ prompt[n].index = k})

\* C15: when main has run to its end with a summary written, one context
\* bundle was assembled for every record of the summary, be its kind
\* failure or error.
C15_EveryRecordBundled ==
    pc = "done" /\ SummaryWritten =>
        \A k \in 1..Len(summary_failures(summary)) : Bundles(k) = 1

\* C16: with the argument analyze the suggestion stage is never started,
\* with the argument suggest the analysis is never run, and without an
\* argument suggestions come only after the analysis.
C16_ModeSelectsStages ==
    /\ argv = "analyze" => ~InSeq(events, "suggest_fixes")
    /\ argv = "suggest" => ~InSeq(events, "run_analysis")
    /\ argv = "" /\ InSeq(events, "suggest_fixes") => events[1] = "run_analysis"

\* the files under a source tree
UnderSourceTree(q) == \E d \in {"src/", "bank/src/", "test/"} : StartsWith(q, d)
\* the files a step creates, replaces or deletes
Touched(f, g) ==
    {q \in DOMAIN f \cup DOMAIN g : q \notin DOMAIN f \/ q \notin DOMAIN g \/ f[q] # g[q]}

\* C21: no step of the workflow creates, modifies or deletes a file under
\* the source trees; the only files a step writes are the summary and the
\* suggested fixes.
C21_SourceTreesUntouched ==
    [][/\ \A q \in Touched(fs, fs') : ~UnderSourceTree(q)
       /\ Touched(fs, fs') \subseteq {"output/error-summary.json",
                                      "output/suggested-fixes.json"}]_vars

\* the whole workflow has run, both output files are written and the
\* source files were read on the way
C21_Witness ==
    /\ pc = "done"
    /\ {"output/error-summary.json", "output/suggested-fixes.json"} \subseteq DOMAIN fs
    /\ \E n \in 1..Len(prompt) : prompt[n].part = "source"

(***************************************************************************)
(* Further properties of the annotator.                                    *)
(***************************************************************************)
\* the annotator went through the lines of the source
ScanRan ==
    /\ pc = "analyzed"
    /\ source_code # ""
    /\ failure_details.kind = "dict"
    /\ Activated(failure_details.expected, failure_details.actual)
\* the line holds a size-related token and a comparison operator
SizeComparison(line) ==
    /\ \E k \in 1..Len(size_keywords) : Contains(Lower(Strip(line)), size_keywords[k])
    /\ \E o \in 1..Len(operators) : Contains(Strip(line), operators[o])
\* the annotations of one type on line i
BugsOn(i, type) ==
    {n \in 1..Len(analysis.bugs) :
        analysis.bugs[n].line_number = i /\ analysis.bugs[n].bug_type = type}

\* C22: when the annotator is active, a line with a size-related token and
\* a comparison operator gets exactly one size-check annotation, of medium
\* confidence, whether or not the off-by-one rule fired on it; any other
\* line gets none.
C22_OneSizeCheckPerLine ==
    ScanRan =>
      \A i \in 1..Len(Split(source_code, "\n")) :
         /\ Cardinality(BugsOn(i, "size_check_error")) =
               IF SizeComparison(Split(source_code, "\n")[i]) THEN 1 ELSE 0
         /\ \A n \in BugsOn(i, "size_check_error") : analysis.bugs[n].confidence = "medium"

(***************************************************************************)
(* Further properties of the locator.                                      *)
(***************************************************************************)
\* the locator has returned a not-found result
NotFound == pc = "located" /\ ~source_info.found
\* the roots, by their place in the search order, that hold the class file
HoldingRoots == {k \in 1..3 : Exists(fs, possible_paths(test_class)[k])}
MethodNote(k) ==
    "Method '" \o test_method \o "' not found in " \o possible_paths(test_class)[k]
ReadNote(k) ==
    "Could not read source file " \o possible_paths(test_class)[k] \o ": <error>"
\* what every not-found result carries
NotFoundFields ==
    /\ source_info.path = None
    /\ source_info.context = None
    /\ source_info.searched_paths = possible_paths(test_class)
    /\ source_info.notes # <<>>
    /\ HoldingRoots = {} =>
          source_info.notes = << "Source file not found for " \o test_class >>

TestSimpleName == Split(test_class, ".")[Len(Split(test_class, "."))]
BaseName == search_patterns[1]
\* the places in the list of the suffixes the simple name ends with
MatchingSuffixes == {k \in 1..4 : EndsWith(TestSimpleName, <<"Test", "Tests", "IT", "Integration">>[k])}

\* C24: the base name is the simple name of the test class without the
\* first of Test, Tests, IT, Integration that it ends with, nothing more
\* being removed; a simple name ending with none of them is the base name.
C24_FirstSuffixStripped ==
    RelatedFound =>
      IF MatchingSuffixes = {} THEN BaseName = TestSimpleName
      ELSE BaseName \o <<"Test", "Tests", "IT", "Integration">>[SetMin(MatchingSuffixes)]
              = TestSimpleName

\* a name with two suffixes, one behind the other, lost only the last
C24_Witness ==
    /\ RelatedFound
    /\ test_class = "p.FooIntegrationTest"
    /\ BaseName = "FooIntegration"

NamePlace(content, m) ==
    LET quals == {q \in 1..Len(Qualifiers) :
                     /\ LitAt(content, m, Qualifiers[q])
                     /\ SignatureRestAt(content, m + Len(Qualifiers[q]), test_method)}
        j == IF quals = {} THEN m ELSE m + Len(Qualifiers[SetMin(quals)])
    IN RunEnd(content, RunEnd(content, j, SpaceSet) + 4, SpaceSet)
\* the line of the file on which the name of the located method stands
SignatureLine ==
    LET content == fs[source_info.path]
        name_place == NamePlace(content, MethodSearch(content, test_method))
    IN Split(content, "\n")[1 + CountChar(Mid(content, 1, name_place - 1), "\n")]

\* C26: on a found result method_signature is the trimmed line of the file
\* on which the signature of the target method stands, and so holds the
\* name of the method followed by its parameter list.
C26_SignatureLineReported ==
    Found =>
      /\ source_info.method_signature = Strip(SignatureLine)
      /\ \E i \in 1..Len(source_info.method_signature) :
            /\ LitAt(source_info.method_signature, i, test_method)
            /\ Ch(source_info.method_signature,
                  RunEnd(source_info.method_signature, i + Len(test_method), SpaceSet)) = "("

\* the number of lines of the file the result comes from: a newline at the
\* end of the file ends the last line and begins no further one
TextLines ==
    LET content == fs[source_info.path]
    IN IF content = "" THEN 0
       ELSE IF EndsWith(content, "\n") THEN FileLines - 1 ELSE FileLines

\* C27: on a found result 1 <= context_start_line <= line of the match <=
\* context_end_line <= number of lines of the file, and the context is made
\* of the context_end_line - context_start_line + 1 lines of the file from
\* context_start_line to context_end_line.
C27_WindowWithinFile ==
    Found =>
      /\ 1 <= source_info.context_start_line
      /\ source_info.context_start_line <= MatchLine
      /\ MatchLine <= source_info.context_end_line
      /\ source_info.context_end_line <= TextLines
      /\ source_info.context =
            Join(SubSeq(Split(fs[source_info.path], "\n"),
                        source_info.context_start_line, source_info.context_end_line), "\n")
      /\ Len(Split(source_info.context, "\n")) =
            source_info.context_end_line - source_info.context_start_line + 1

(***************************************************************************)
(* Further properties of the analyzer and of suggest_fixes.                *)
(***************************************************************************)
\* the sum of a field over the recorded suites
RECURSIVE SuiteSum(_, _)
SuiteSum(n, field) ==
    IF n = 0 THEN 0 ELSE SuiteSum(n - 1, field) + test_suites[n][field]

\* C28: whatever report files the parsing loop has gone through, each of
\* the running totals equals the sum of its field over the recorded suites.
C28_TotalsAgreeWithSuites ==
    pc # "main" =>
      /\ total_tests = SuiteSum(Len(test_suites), "tests")
      /\ total_failures = SuiteSum(Len(test_suites), "failures")
      /\ total_errors = SuiteSum(Len(test_suites), "errors")
      /\ total_skipped = SuiteSum(Len(test_suites), "skipped")

\* the places of an event in the log
Places(e) == {n \in 1..Len(events) : events[n] = e}

\* C29: when the summary reports no failure, suggest_fixes requests no
\* access token, does not call the inference endpoint and writes no
\* suggested fixes; and a call of the inference endpoint comes only after
\* the request of the access token, which was granted.
C29_NoFailuresNoRequests ==
    /\ SummaryWritten /\ summary.summary.total_failures = 0 =>
          /\ Places("get_access_token") = {}
          /\ Places("call_watsonx_ai") = {}
          /\ Places("write_fixes") = {}
          /\ "output/suggested-fixes.json" \notin DOMAIN fs
    /\ \A c \in Places("call_watsonx_ai") :
          \E t \in Places("get_access_token") : t < c
    /\ pc = "exited" /\ Places("get_access_token") # {} /\ Places("call_watsonx_ai") = {}
          => events[Len(events)] = "get_access_token"

\* suggest_fixes was started on a summary without failures and has returned
C29_Witness ==
    /\ pc = "done"
    /\ Places("suggest_fixes") # {}
    /\ summary.summary.total_failures = 0
    /\ summary.summary.total_errors > 0


(***************************************************************************)
(* Properties of parse_ai_response.                                        *)
(***************************************************************************)
ReplyParsed == pc = "parsed"
ReplyText(k) == Strip(Split(ai_response, "\n")[k])
\* the lines of the reply whose trimmed text starts with a keyword
KeywordLines(keyword) ==
    {k \in 1..Len(Split(ai_response, "\n")) : StartsWith(ReplyText(k), keyword)}
\* the n-th FILE: line, and the lines it governs: those after it and before
\* the next FILE: line
NthFileLine(n) ==
    CHOOSE k \in KeywordLines("FILE:") :
        Cardinality({j \in KeywordLines("FILE:") : j <= k}) = n
Governed(n) ==
    {k \in 1..Len(Split(ai_response, "\n")) :
        /\ k > NthFileLine(n)
        /\ \A j \in KeywordLines("FILE:") : j > NthFileLine(n) => k < j}
FieldKeywords ==
    [line_number |-> "LINE:", current_code |-> "REPLACE:", fixed_code |-> "WITH:"]

\* C30: parse_ai_response returns one fix per line of the reply whose
\* trimmed text starts with FILE:, in the order of the reply; every fix has
\* a file_path, the text of its FILE: line; and a fix has a line_number,
\* current_code or fixed_code exactly when a LINE:, REPLACE: or WITH: line
\* lies between its FILE: line and the next one, so that such lines before
\* the first FILE: line reach no fix.
C30_OneFixPerFileLine ==
    ReplyParsed =>
      /\ Len(structured_fixes.fixes) = Cardinality(KeywordLines("FILE:"))
      /\ \A n \in 1..Len(structured_fixes.fixes) :
            /\ "file_path" \in DOMAIN structured_fixes.fixes[n]
            /\ n <= Cardinality(KeywordLines("FILE:")) =>
                  /\ structured_fixes.fixes[n].file_path
                        = keyword_text(ReplyText(NthFileLine(n)), "FILE:")
                  /\ \A field \in DOMAIN FieldKeywords :
                        field \in DOMAIN structured_fixes.fixes[n]
                          <=> Governed(n) \cap KeywordLines(FieldKeywords[field]) # {}

=============================================================================
